---- MODULE Spec2Model ----
(***************************************************************************)
(* SmartFarmWatcher: the detection ingestion pipeline (receive_image in    *)
(* detection_management/views.py), the post_save notification fan-out      *)
(* (notification_management/signals.py), and the project registry          *)
(* (project_management: Project, FarmBoundary, Camera, the creation wizard *)
(* and the client signup of authentication/views.py), as state machines    *)
(* over one store.                                                         *)
(*                                                                         *)
(* Spec            one HTTP request to receive_image against a store that  *)
(*                 already holds projects, cameras, roles and one earlier  *)
(*                 Detection.  The handler is split at the places the      *)
(*                 claims talk about.                                      *)
(* SpecProjectSave one project creation request, against stores with few   *)
(*                 and with very many projects of colliding slugs.         *)
(* SpecMembers     a project creation, client signups, then one            *)
(*                 receive_image run of a deployment without model         *)
(*                 weights, then false-positive toggles.                   *)
(* SpecRegistry    a project creation, then boundary and camera            *)
(*                 operations on the new project, the creation of a        *)
(*                 boundary split into its validation and its save.        *)
(*                                                                         *)
(* Confidences are integers in units of 0.00001; the stored                *)
(* confidence_score is an integer in units of 0.0001, the four decimal     *)
(* places of the DecimalField.  Geometries are sets of sample points: two  *)
(* geometries intersect when they share a point, a polygon contains a      *)
(* point that is an element of it.  Strings that the code builds (slugs)   *)
(* are sequences of their hyphen-separated parts.                          *)
(***************************************************************************)
EXTENDS Integers, Sequences, FiniteSets, TLC

VARIABLES
    fire_model,             \* views.py:29,43  TRUE when FireShield.pt was loaded
    person_model,           \* views.py:30,52  TRUE when yolo11s.pt was loaded
    pc,                     \* position of the handler
    request,                \* request.POST / request.FILES of the run
    lookups,                \* branches of get_camera_by_identifier entered
    camera,                 \* the resolved camera id, 0 for None
    fire_only,              \* views.py:260
    smoke_only,             \* views.py:261
    person_detections,      \* views.py:336
    fire_smoke_detections,  \* views.py:415 (ids)
    detections_created,     \* views.py:412 (ids)
    calls,                  \* model invocations of the run, in order
    save_log,               \* save_detection calls of the run, in order
    response,               \* the JsonResponse returned
    detection_types,        \* DetectionType rows (names)
    detections,             \* Detection rows, row i has id i
    notifications,          \* Notification rows, row i has id i
    pushes,                 \* delivery attempts made by the fan-out
    projects,               \* Project rows
    farm_boundaries,        \* FarmBoundary rows, row i has id i
    cameras,                \* Camera rows, row i has id i
    user_project_roles,     \* UserProjectRole rows, newest first
    users,                  \* AppUser rows: username -> user_type
    wizard,                 \* the create_project_wizard request in flight
    pending,                \* FarmBoundary objects validated and not yet saved
    regenerated             \* the last project_regenerate_code call that returned

\* the variables of one receive_image run
run == <<fire_model, person_model, pc, request, lookups, camera, fire_only,
         smoke_only, person_detections, fire_smoke_detections,
         detections_created, calls, save_log, response>>

\* the detection tables
events == <<detection_types, detections, notifications, pushes>>

\* the project tables and the requests that work on them
registry == <<projects, farm_boundaries, cameras, user_project_roles, users,
              wizard, pending, regenerated>>

vars == <<run, events, registry>>

(***************************************************************************)
(* Bounds and program constants                                            *)
(***************************************************************************)
\* longest list of raw boxes a model returns for one frame
MaxBoxes == 2

\* views.py:83  `if conf > 0.3`, in units of 0.00001
ConfThreshold == 30000

\* views.py:297 and views.py:303, the confidences of the dummy boxes
DummyFireConf == 85000
DummySmokeConf == 75000

\* class ids a model may report: 0, 1 and one id outside the fire/smoke mapping
ClassIds == {0, 1, 2}

\* confidences a model may report: one at the threshold, two above it
Confidences == {30000, 85004, 90000}

RawBoxes == [class : ClassIds, confidence : Confidences]

BoxLists == UNION {[1..n -> RawBoxes] : n \in 0..MaxBoxes}

\* the rows the FarmBoundary and the Camera table may grow to, and the
\* number of boundary creations that may be in flight at once
MaxBoundaryRows == 5
MaxCameraRows == 6
MaxPending == 2

(***************************************************************************)
(* The store the run starts from                                           *)
(***************************************************************************)
\* project_management/models.py:13-29  Project rows; a name and a slug are
\* the sequences of their parts
Projects ==
    << [id |-> "P1", name |-> <<"Farm">>, slug |-> <<"farm">>,
        access_code |-> "A1B2", is_active |-> TRUE, created_by |-> "alice"],
       [id |-> "P2", name |-> <<"Farm", "1">>, slug |-> <<"farm", "1">>,
        access_code |-> "C3D4", is_active |-> TRUE, created_by |-> "dave"] >>

\* project_management/models.py:125-145  FarmBoundary rows; a geometry is the
\* set of the sample points it covers, {} is a null boundary
FarmBoundaries ==
    << [project |-> "P1", boundary |-> {1, 2}, is_active |-> TRUE],
       [project |-> "P2", boundary |-> {1, 2}, is_active |-> TRUE] >>

\* project_management/models.py Camera rows: an active and an inactive camera
\* of each type; location 0 is a null location
Cameras ==
    << [project |-> "P1", farm_boundary |-> 1, location |-> 1,
        camera_type |-> "ip", ip_address |-> "10.0.0.5",
        port |-> 8080, cellular_identifier |-> "", is_active |-> TRUE],
       [project |-> "P1", farm_boundary |-> 1, location |-> 2,
        camera_type |-> "ip", ip_address |-> "10.0.0.6",
        port |-> 8080, cellular_identifier |-> "", is_active |-> FALSE],
       [project |-> "P2", farm_boundary |-> 2, location |-> 0,
        camera_type |-> "cellular", ip_address |-> "",
        port |-> 0, cellular_identifier |-> "CELL-3", is_active |-> TRUE],
       [project |-> "P2", farm_boundary |-> 2, location |-> 1,
        camera_type |-> "cellular", ip_address |-> "",
        port |-> 0, cellular_identifier |-> "CELL-4", is_active |-> FALSE] >>

\* UserProjectRole rows in the order of Meta.ordering (-assigned_at)
UserProjectRoles ==
    << [user |-> "carol", project |-> "P1", role |-> "client", is_active |-> FALSE],
       [user |-> "bob", project |-> "P1", role |-> "client", is_active |-> TRUE],
       [user |-> "alice", project |-> "P1", role |-> "supervisor", is_active |-> TRUE],
       [user |-> "dave", project |-> "P2", role |-> "supervisor", is_active |-> TRUE] >>

\* authentication AppUser rows: username -> user_type
Users ==
    ("alice" :> "supervisor") @@ ("dave" :> "supervisor") @@
    ("erin" :> "supervisor") @@ ("bob" :> "client") @@ ("carol" :> "client")

\* the Detection an earlier run left behind, with its Notification
InitialDetections ==
    << [id |-> 1, camera |-> 3, detection_type |-> "person",
        confidence_score |-> 7000,
        bounding_boxes |-> << [class |-> 0, confidence |-> 70000] >>,
        detected_at |-> 1,
        is_false_positive |-> FALSE] >>

InitialNotifications == << [id |-> 1, user |-> "dave", detection |-> 1] >>

InitialDetectionTypes == {"person"}

(***************************************************************************)
(* Requests                                                                *)
(***************************************************************************)
\* int() of the strings a request may carry; a string outside the domain
\* makes int() (or the id field's to_python) raise ValueError
IntOf ==
    ("1" :> 1) @@ ("2" :> 2) @@ ("3" :> 3) @@ ("4" :> 4) @@ ("9" :> 9) @@
    ("8080" :> 8080) @@ ("9999" :> 9999)

CameraIdValues == {"", "1", "2", "3", "4", "9", "abc"}

\* ip_port as the parts ip_port.split(':') yields; <<>> is an absent field
IpPortValues ==
    { <<>>, <<"10.0.0.5", "8080">>, <<"10.0.0.6", "8080">>,
      <<"10.0.0.5", "9999">>, <<"10.0.0.5">>, <<"10.0.0.5", "http">>,
      <<"10.0.0.5", "8080", "1">> }

CellularValues == {"", "CELL-3", "CELL-4", "CELL-9"}

ImageValues == {"missing", "valid", "corrupt"}

Requests ==
    [camera_id : CameraIdValues, ip_port : IpPortValues,
     cellular_identifier : CellularValues, image : ImageValues]

NoRequest ==
    [camera_id |-> "", ip_port |-> <<>>, cellular_identifier |-> "",
     image |-> "none"]

\* the identifiers are not read after views.py:404; the run drops them when it
\* enters inference
ConsumedRequest ==
    [camera_id |-> "", ip_port |-> <<>>, cellular_identifier |-> "",
     image |-> "consumed"]

(***************************************************************************)
(* Camera resolution                                                       *)
(***************************************************************************)
\* a variant of the check that lets a request without identifier through
AnyIdentifierAlways(req) == TRUE

\* views.py:380  any([camera_id, ip_port, cellular_id])
AnyIdentifier(req) ==
    \/ req.camera_id # ""
    \/ req.ip_port # <<>>
    \/ req.cellular_identifier # ""

\* Camera.objects.filter(id=...)
CamerasById(id) == {c \in DOMAIN cameras : c = id}

\* Camera.objects.filter(camera_type='ip', ip_address=..., port=..., is_active=True)
ActiveIpCameras(ip, port) ==
    {c \in DOMAIN cameras : /\ cameras[c].camera_type = "ip"
                            /\ cameras[c].ip_address = ip
                            /\ cameras[c].port = port
                            /\ cameras[c].is_active}

\* Camera.objects.filter(camera_type='cellular', cellular_identifier=..., is_active=True)
ActiveCellularCameras(cid) ==
    {c \in DOMAIN cameras : /\ cameras[c].camera_type = "cellular"
                            /\ cameras[c].cellular_identifier = cid
                            /\ cameras[c].is_active}

\* get_object_or_404 on a queryset: it raises Http404, never Camera.DoesNotExist
GetObjectOr404(matches, path) ==
    IF matches = {}
    THEN [outcome |-> "Http404", camera |-> 0, lookups |-> <<path>>]
    ELSE IF Cardinality(matches) > 1
    THEN [outcome |-> "MultipleObjectsReturned", camera |-> 0, lookups |-> <<path>>]
    ELSE [outcome |-> "ok", camera |-> CHOOSE c \in matches : TRUE,
          lookups |-> <<path>>]

\* a variant that tries the next identifier when a lookup finds nothing
GetCameraByIdentifierFallThrough(camera_id, ip_port, cellular_id) ==
    LET byId == IF camera_id # "" /\ camera_id \in DOMAIN IntOf
                THEN GetObjectOr404(CamerasById(IntOf[camera_id]), "camera_id")
                ELSE [outcome |-> "Http404", camera |-> 0, lookups |-> <<>>]
        byIp == IF Len(ip_port) = 2 /\ ip_port[2] \in DOMAIN IntOf
                THEN GetObjectOr404(ActiveIpCameras(ip_port[1], IntOf[ip_port[2]]),
                                    "ip_port")
                ELSE [outcome |-> "Http404", camera |-> 0, lookups |-> <<>>]
        byCell == IF cellular_id # ""
                  THEN GetObjectOr404(ActiveCellularCameras(cellular_id),
                                      "cellular_identifier")
                  ELSE [outcome |-> "Http404", camera |-> 0, lookups |-> <<>>]
    IN  IF byId.outcome = "ok" THEN byId
        ELSE IF byIp.outcome = "ok"
        THEN [byIp EXCEPT !.lookups = byId.lookups \o byIp.lookups]
        ELSE [byCell EXCEPT !.lookups = byId.lookups \o byIp.lookups \o byCell.lookups]

\* views.py:205-242
GetCameraByIdentifier(camera_id, ip_port, cellular_id) ==
    IF camera_id # ""
    THEN IF camera_id \notin DOMAIN IntOf
         THEN [outcome |-> "ValueError", camera |-> 0, lookups |-> <<"camera_id">>]
         ELSE GetObjectOr404(CamerasById(IntOf[camera_id]), "camera_id")
    ELSE IF ip_port # <<>>
    THEN IF Len(ip_port) # 2 \/ ip_port[2] \notin DOMAIN IntOf
         THEN [outcome |-> "ValueError", camera |-> 0, lookups |-> <<"ip_port">>]
         ELSE GetObjectOr404(ActiveIpCameras(ip_port[1], IntOf[ip_port[2]]),
                             "ip_port")
    ELSE IF cellular_id # ""
    THEN GetObjectOr404(ActiveCellularCameras(cellular_id), "cellular_identifier")
    ELSE [outcome |-> "ok", camera |-> 0, lookups |-> <<>>]

\* a variant of the check that lets every camera through
CameraIsActiveAlways(c) == TRUE

\* views.py:394  camera.is_active
CameraIsActive(c) == cameras[c].is_active

(***************************************************************************)
(* Responses                                                               *)
(***************************************************************************)
NoResponse ==
    [status |-> 0, success |-> FALSE, camera_id |-> 0,
     detections_created |-> <<>>, fire_smoke_detected |-> FALSE,
     person_detection_skipped |-> FALSE]

\* JsonResponse({'error': ...}, status=s)
ErrorResponse(s) == [NoResponse EXCEPT !.status = s]

\* a variant that reports the person step as skipped whenever the run
\* created nothing
SuccessResponseSkippedWhenEmpty(cam, created, fire_smoke) ==
    [status |-> 200, success |-> TRUE, camera_id |-> cam,
     detections_created |-> created,
     fire_smoke_detected |-> Len(fire_smoke) > 0,
     person_detection_skipped |-> Len(created) = 0]

\* views.py:430-438
SuccessResponse(cam, created, fire_smoke) ==
    [status |-> 200, success |-> TRUE, camera_id |-> cam,
     detections_created |-> created,
     fire_smoke_detected |-> Len(fire_smoke) > 0,
     person_detection_skipped |-> Len(fire_smoke) > 0]

(***************************************************************************)
(* Processing of model results                                             *)
(***************************************************************************)
AboveThreshold(b) == b.confidence > ConfThreshold

\* views.py:65-103: keeps the boxes with conf > 0.3, in order
ProcessDetectionResults(raw) == SelectSeq(raw, AboveThreshold)

\* a variant of the mapping that knows no smoke class
GetDetectionTypeFromClassNoSmoke(class_id, model_type) ==
    IF model_type = "fire" THEN "fire" ELSE model_type

\* views.py:106-116
GetDetectionTypeFromClass(class_id, model_type) ==
    IF model_type = "fire"
    THEN IF class_id = 0 THEN "fire"
         ELSE IF class_id = 1 THEN "smoke"
         ELSE "fire"
    ELSE IF model_type = "person" THEN "person"
    ELSE model_type

IsFireBox(b) == GetDetectionTypeFromClass(b.class, "fire") = "fire"
IsSmokeBox(b) == GetDetectionTypeFromClass(b.class, "fire") = "smoke"

\* views.py:338  detection['class'] == 0
IsPersonBox(b) == b.class = 0

\* views.py:294-298 and 300-304
DummyFire == << [class |-> 0, confidence |-> DummyFireConf] >>
DummySmoke == << [class |-> 1, confidence |-> DummySmokeConf] >>

(***************************************************************************)
(* save_detection and the post_save handler                                *)
(***************************************************************************)
RECURSIVE SumConfidence(_)
\* views.py:166  sum(d['confidence'] for d in detections)
SumConfidence(dets) ==
    IF dets = <<>> THEN 0
    ELSE dets[1].confidence + SumConfidence(Tail(dets))

\* a / b rounded to the nearest integer, ties to the even one
RoundHalfEven(a, b) ==
    LET q == a \div b
        r == a % b
    IN  IF 2 * r < b THEN q
        ELSE IF 2 * r > b THEN q + 1
        ELSE IF q % 2 = 0 THEN q ELSE q + 1

\* a variant that takes the confidence of the first box for the average
AvgConfidenceFirstBox(dets) ==
    IF dets = <<>> THEN [sum |-> 0, n |-> 1]
    ELSE [sum |-> dets[1].confidence, n |-> 1]

\* views.py:166  the average as the fraction sum / n (0 for an empty list)
AvgConfidence(dets) ==
    IF dets = <<>> THEN [sum |-> 0, n |-> 1]
    ELSE [sum |-> SumConfidence(dets), n |-> Len(dets)]

\* a / b rounded to the nearest integer, ties away from zero (a, b >= 0)
RoundHalfUp(a, b) ==
    LET q == a \div b
        r == a % b
    IN  IF 2 * r < b THEN q ELSE q + 1

\* models.py:22  DecimalField(max_digits=5, decimal_places=4).  to_python
\* reads the float with 5 significant digits (for 0.1 <= v <= 1: 5 decimals,
\* ties to even); the value is then brought to 4 decimals, by Django's
\* format_number (ties to even) or, on PostgreSQL, by the numeric(5,4) column
\* (ties away from zero).  The result is in units of 0.0001.
ToDecimalField(avg, rounding) ==
    LET read == RoundHalfEven(avg.sum, avg.n)
    IN  IF rounding = "half_up" THEN RoundHalfUp(read, 10)
        ELSE RoundHalfEven(read, 10)

\* the database backend is not fixed by the sources: both roundings can occur
\* where they differ
Roundings(boxes) ==
    LET avg == AvgConfidence(boxes)
    IN  IF ToDecimalField(avg, "half_up") = ToDecimalField(avg, "half_even")
        THEN {"half_even"}
        ELSE {"half_even", "half_up"}

\* signals.py:23-29  the users of the active roles of the project, in order
RECURSIVE UsersToNotifyFrom(_, _)
UsersToNotifyFrom(roles, project) ==
    IF roles = <<>> THEN <<>>
    ELSE (IF roles[1].project = project /\ roles[1].is_active
          THEN <<roles[1].user>> ELSE <<>>)
         \o UsersToNotifyFrom(Tail(roles), project)

UsersToNotify(project) == UsersToNotifyFrom(user_project_roles, project)

\* where one save_detection call may fail: nowhere, in get_or_create, while
\* the images and the row are written, in the handler's audience query, in
\* Notification.objects.create for the k-th user, or in the WebSocket push,
\* the FCM push or both pushes for the k-th user
Faults(cam) ==
    {[at |-> a, k |-> 0] : a \in {"none", "get_or_create", "insert", "audience"}}
    \cup {[at |-> a, k |-> k] : a \in {"notify", "ws", "fcm", "ws_fcm"},
                                k \in 1..Len(UsersToNotify(cameras[cam].project))}

FanoutFaults == {"audience", "notify", "ws", "fcm", "ws_fcm"}

\* the push on channel ch for the i-th user fails
PushFails(fault, i, ch) ==
    fault.k = i /\ (fault.at = ch \/ fault.at = "ws_fcm")

\* a variant with both pushes in one try block: a failed WebSocket push
\* skips the FCM push
DeliveryAttemptsOneTry(n, fault, i) ==
    IF PushFails(fault, i, "ws")
    THEN << [notification |-> n.id, user |-> n.user, channel |-> "ws",
             ok |-> FALSE] >>
    ELSE << [notification |-> n.id, user |-> n.user, channel |-> "ws",
             ok |-> TRUE],
            [notification |-> n.id, user |-> n.user, channel |-> "fcm",
             ok |-> ~PushFails(fault, i, "fcm")] >>

\* signals.py:50-84  the two deliveries for Notification n of the i-th user,
\* each in a try block of its own: the WebSocket attempt, then the FCM attempt
DeliveryAttempts(n, fault, i) ==
    << [notification |-> n.id, user |-> n.user, channel |-> "ws",
        ok |-> ~PushFails(fault, i, "ws")],
       [notification |-> n.id, user |-> n.user, channel |-> "fcm",
        ok |-> ~PushFails(fault, i, "fcm")] >>

\* signals.py:36-84  the loop over users_to_notify from the i-th user on;
\* Notification.objects.create is outside any try
RECURSIVE NotifyUsers(_, _, _, _, _, _)
NotifyUsers(users_to_notify, i, row, fault, notifs, pshs) ==
    IF i > Len(users_to_notify)
    THEN [raised |-> FALSE, notifications |-> notifs, pushes |-> pshs]
    ELSE IF fault.at = "notify" /\ fault.k = i
    THEN [raised |-> TRUE, notifications |-> notifs, pushes |-> pshs]
    ELSE LET n == [id |-> Len(notifs) + 1, user |-> users_to_notify[i],
                   detection |-> row.id]
         IN  NotifyUsers(users_to_notify, i + 1, row, fault, Append(notifs, n),
                         pshs \o DeliveryAttempts(n, fault, i))

\* a variant of the handler that does not look at `created`
CreateDetectionNotificationOnEverySave(row, created, fault, notifs, pshs) ==
    IF row.is_false_positive
    THEN [raised |-> FALSE, notifications |-> notifs, pushes |-> pshs]
    ELSE IF fault.at = "audience"
    THEN [raised |-> TRUE, notifications |-> notifs, pushes |-> pshs]
    ELSE NotifyUsers(UsersToNotify(cameras[row.camera].project), 1, row,
                     fault, notifs, pshs)

\* signals.py:11-86, run by detection.save() with created = TRUE for an
\* INSERT and created = FALSE for an UPDATE
CreateDetectionNotification(row, created, fault, notifs, pshs) ==
    IF ~(created /\ ~row.is_false_positive)
    THEN [raised |-> FALSE, notifications |-> notifs, pushes |-> pshs]
    ELSE IF fault.at = "audience"
    THEN [raised |-> TRUE, notifications |-> notifs, pushes |-> pshs]
    ELSE NotifyUsers(UsersToNotify(cameras[row.camera].project), 1, row,
                     fault, notifs, pshs)

\* the reading of the clock when a row is saved, counted in saves of new
\* rows: it is later than detected_at of every row stored before
ClockAtSave(dets) == Len(dets) + 1

\* a variant that stamps the row on every save (auto_now)
DetectedAtOnSaveAutoNow(stored, add, now) == now

\* models.py:26  detected_at = DateTimeField(auto_now_add=True): pre_save
\* takes the clock when the row is added and the stored value otherwise
DetectedAtOnSave(stored, add, now) == IF add THEN now ELSE stored

\* views.py:152-202  the result of one save_detection call on the store
\* (types, dets, notifs, pshs): the store after it, whether it raised, and the
\* id of the row it inserted (0 if none)
SaveDetection(cam, detection_type_name, boxes, fault, rounding, types, dets, notifs, pshs) ==
    IF fault.at = "get_or_create"
    THEN [raised |-> TRUE, id |-> 0, detection_types |-> types,
          detections |-> dets, notifications |-> notifs, pushes |-> pshs]
    ELSE IF fault.at = "insert"
    THEN [raised |-> TRUE, id |-> 0,
          detection_types |-> types \cup {detection_type_name},
          detections |-> dets, notifications |-> notifs, pushes |-> pshs]
    ELSE
      LET row == [id |-> Len(dets) + 1, camera |-> cam,
                  detection_type |-> detection_type_name,
                  confidence_score |->
                      ToDecimalField(AvgConfidence(boxes), rounding),
                  bounding_boxes |-> boxes,
                  detected_at |-> DetectedAtOnSave(0, TRUE, ClockAtSave(dets)),
                  is_false_positive |-> FALSE]
          fan == CreateDetectionNotification(row, TRUE, fault, notifs, pshs)
      IN  [raised |-> fan.raised, id |-> row.id,
           detection_types |-> types \cup {detection_type_name},
           detections |-> Append(dets, row),
           notifications |-> fan.notifications, pushes |-> fan.pushes]

(***************************************************************************)
(* The project registry: geometry, Project.save, the model validations     *)
(***************************************************************************)
\* the polygons a request may draw: the first two share point 2, the last
\* two share point 3, the first and the last share nothing
Polygons == {{1, 2}, {2, 3}, {3}}

\* the locations a camera may be given, 0 for none
Locations == {0, 1, 2, 3}

\* models.py:204 and forms.py:116  GEOS intersects
Intersects(a, b) == a \cap b # {}

\* models.py:333  GEOS contains, for a point
Contains(polygon, point) == point \in polygon

\* models.py:48  the counter value after which the slug loop gives up
SlugMaxCounter == 1000

\* models.py:60  max_attempts of generate_access_code
MaxAttempts == 100

\* models.py:64  range(12), the length of a random access code
AccessCodeLength == 12

\* models.py:70  the length of str(uuid.uuid4()) without its hyphens
UuidHexLength == 32

\* models.py:70  the end of the slice [:12]
UuidSliceEnd == 12

\* models.py:70  len(s[:12]) for a string s of UuidHexLength characters
UuidPrefixLength ==
    IF UuidHexLength < UuidSliceEnd THEN UuidHexLength ELSE UuidSliceEnd

\* models.py:49  int(timezone.now().timestamp()) at the time of the request
Timestamps == {"1762185600", "1762185601"}

\* the codes secrets.choice may draw (two of them are in use) and the codes
\* the UUID fallback may yield (one of them is in use)
RandomCodes == {"A1B2", "C3D4", "E5F6"}
UuidCodes == {"C3D4", "0A1B"}

\* str.lower() of the parts of the names used
LowerCase == ("Farm" :> "farm") @@ ("FARM" :> "farm") @@ ("Barn" :> "barn")

\* models.py:42  slugify(name): lower case, the parts joined by hyphens
Slugify(name) ==
    [i \in 1..Len(name) |->
        IF name[i] \in DOMAIN LowerCase THEN LowerCase[name[i]] ELSE name[i]]

\* a variant that only looks at the projects of the user of the request
SlugExistsOwn(slug) ==
    \E i \in 1..Len(projects) :
        projects[i].slug = slug /\ projects[i].created_by = wizard.user

\* models.py:45  Project.objects.filter(slug=slug).exists()
SlugExists(slug) == \E i \in 1..Len(projects) : projects[i].slug = slug

\* models.py:65  Project.objects.filter(access_code=code).exists()
AccessCodeExists(code) ==
    \E i \in 1..Len(projects) : projects[i].access_code = code

\* a variant of the loop exit that never gives up
SlugCounterNeverExhausted(counter) == FALSE

\* models.py:48  `if counter > 1000`
SlugCounterExhausted(counter) == counter > SlugMaxCounter

\* models.py:63  `while attempts < max_attempts`
MoreAttempts(attempts) == attempts < MaxAttempts

\* models.py:32  unique_together (name, created_by), checked by full_clean
NameTaken(name, user) ==
    \E i \in 1..Len(projects) :
        projects[i].name = name /\ projects[i].created_by = user

\* the primary key the next Project row gets
NextProjectId == "P" \o ToString(Len(projects) + 1)

\* models.py:187-207  validate_no_boundary_overlap of a FarmBoundary with
\* primary key pk (0 before the first save) against the rows of the table
ValidateNoBoundaryOverlap(rows, project, pk, boundary) ==
    IF boundary = {} THEN TRUE
    ELSE {b \in 1..Len(rows) : /\ rows[b].project = project
                               /\ rows[b].boundary # {}
                               /\ rows[b].is_active
                               /\ b # pk
                               /\ Intersects(boundary, rows[b].boundary)} = {}

\* models.py:300  cellular_identifier is unique among the rows that have one
CellularIdentifierTaken(rows, pk, cid) ==
    \E c \in 1..Len(rows) : c # pk /\ rows[c].cellular_identifier = cid

\* models.py:322-351  Camera.clean: TRUE when it raises no ValidationError;
\* `boundaries` is the FarmBoundary table the camera's foreign key points in
CameraClean(cam, boundaries) ==
    /\ boundaries[cam.farm_boundary].project = cam.project
    /\ (cam.location # 0 /\ boundaries[cam.farm_boundary].boundary # {}
          => Contains(boundaries[cam.farm_boundary].boundary, cam.location))
    /\ (cam.camera_type = "ip" => cam.ip_address # "" /\ cam.port \in 1..65535)
    /\ (cam.camera_type = "cellular" => cam.cellular_identifier # "")

\* Camera.full_clean: clean and the unique check of cellular_identifier
CameraFullClean(cam, pk, boundaries, rows) ==
    /\ CameraClean(cam, boundaries)
    /\ (cam.cellular_identifier # ""
          => ~CellularIdentifierTaken(rows, pk, cam.cellular_identifier))

(***************************************************************************)
(* The requests of the project creation wizard                             *)
(***************************************************************************)
\* one entry of farm_boundaries_data: kind "polygon" carries a geometry,
\* "none" carries no boundary, "point" a geometry of another type and
\* "invalid" one GEOSGeometry cannot read
BoundaryItem(temp_id, kind, points) ==
    [temp_id |-> temp_id, kind |-> kind, points |-> points]

\* one entry of cameras_data, a cellular camera
CameraItem(temp_id, cid, location) ==
    [farm_boundary_temp_id |-> temp_id, camera_type |-> "cellular",
     ip_address |-> "", port |-> 0, cellular_identifier |-> cid,
     location |-> location]

\* one entry of cameras_data with the default camera_type and no address
IpCameraItem(temp_id, location) ==
    [farm_boundary_temp_id |-> temp_id, camera_type |-> "ip",
     ip_address |-> "", port |-> 0, cellular_identifier |-> "",
     location |-> location]

\* a boundary with a camera inside
PlainSubmission ==
    [boundaries |-> << BoundaryItem("b1", "polygon", {1, 2}) >>,
     cameras |-> << CameraItem("b1", "CELL-9", 1) >>]

\* the bodies a create_project_wizard POST may carry
WizardSubmissions ==
    { PlainSubmission,
      \* two disjoint boundaries, the camera in the second one
      [boundaries |-> << BoundaryItem("b1", "polygon", {1, 2}),
                         BoundaryItem("b2", "polygon", {3}) >>,
       cameras |-> << CameraItem("b2", "CELL-9", 3) >>],
      \* two boundaries that intersect
      [boundaries |-> << BoundaryItem("b1", "polygon", {1, 2}),
                         BoundaryItem("b2", "polygon", {2, 3}) >>,
       cameras |-> << CameraItem("b1", "CELL-9", 1) >>],
      \* a camera outside its boundary, and one without an address
      [boundaries |-> << BoundaryItem("b1", "polygon", {1, 2}) >>,
       cameras |-> << CameraItem("b1", "CELL-9", 3), IpCameraItem("b1", 1) >>],
      \* an unreadable geometry; the camera falls back to the first boundary
      \* that was created
      [boundaries |-> << BoundaryItem("b1", "invalid", {}),
                         BoundaryItem("b2", "polygon", {2, 3}) >>,
       cameras |-> << CameraItem("b1", "CELL-9", 2) >>],
      \* a boundary without geometry and a camera with a location, and a
      \* camera whose identifier is in use
      [boundaries |-> << BoundaryItem("b1", "none", {}),
                         BoundaryItem("b2", "point", {1}) >>,
       cameras |-> << CameraItem("b1", "CELL-9", 3),
                      CameraItem("b1", "CELL-3", 0) >>],
      \* no boundary at all
      [boundaries |-> <<>>,
       cameras |-> << CameraItem("b1", "CELL-9", 1) >>] }

NoSubmission == [boundaries |-> <<>>, cameras |-> <<>>]

\* no request in flight; outcome tells how the last one ended
NoWizard ==
    [pc |-> "idle", user |-> "", name |-> <<>>, data |-> NoSubmission,
     slug |-> <<>>, counter |-> 0, attempts |-> 0, access_code |-> "",
     code_length |-> 0, fallback |-> FALSE, project |-> "",
     created_boundaries |-> <<>>, temp_ids |-> <<>>,
     created_cameras |-> <<>>, next |-> 0, outcome |-> ""]

\* views.py:49-70  the POST of `user` with project_name `name` has arrived
Submitted(user, name, data) ==
    [NoWizard EXCEPT !.pc = "submitted", !.user = user, !.name = name,
                     !.data = data]

\* the request has ended
Finished(outcome) == [NoWizard EXCEPT !.outcome = outcome]

\* no project_regenerate_code call has returned yet
NoRegeneration == [project |-> "", old |-> "", new |-> ""]

\* the store every specification starts from
StoreInit ==
    /\ projects = Projects
    /\ farm_boundaries = FarmBoundaries
    /\ cameras = Cameras
    /\ user_project_roles = UserProjectRoles
    /\ users = Users
    /\ pending = <<>>
    /\ regenerated = NoRegeneration

(***************************************************************************)
(* The run                                                                 *)
(***************************************************************************)
Init ==
    /\ fire_model \in BOOLEAN
    /\ person_model \in BOOLEAN
    /\ pc = "idle"
    /\ request = NoRequest
    /\ lookups = <<>>
    /\ camera = 0
    /\ fire_only = <<>>
    /\ smoke_only = <<>>
    /\ person_detections = <<>>
    /\ fire_smoke_detections = <<>>
    /\ detections_created = <<>>
    /\ calls = <<>>
    /\ save_log = <<>>
    /\ response = NoResponse
    /\ detection_types = InitialDetectionTypes
    /\ detections = InitialDetections
    /\ notifications = InitialNotifications
    /\ pushes = <<>>
    /\ StoreInit
    /\ wizard = NoWizard

\* no receive_image request has arrived yet
IdleRun ==
    /\ pc = "idle"
    /\ request = NoRequest
    /\ lookups = <<>>
    /\ camera = 0
    /\ fire_only = <<>>
    /\ smoke_only = <<>>
    /\ person_detections = <<>>
    /\ fire_smoke_detections = <<>>
    /\ detections_created = <<>>
    /\ calls = <<>>
    /\ save_log = <<>>
    /\ response = NoResponse
    /\ detection_types = InitialDetectionTypes
    /\ detections = InitialDetections
    /\ notifications = InitialNotifications
    /\ pushes = <<>>

\* the run returns `resp`
Return(resp) ==
    /\ response' = resp
    /\ pc' = "done"

\* views.py:371-373  the POST fields and the file of the request arrive
ReceiveRequest ==
    /\ pc = "idle"
    /\ \E req \in Requests : request' = req
    /\ pc' = "received"
    /\ UNCHANGED registry
    /\ UNCHANGED <<fire_model, person_model, lookups, camera, fire_only,
                   smoke_only, person_detections, fire_smoke_detections,
                   detections_created, calls, save_log, response,
                   detection_types, detections, notifications, pushes>>

\* views.py:379-391  the identifier check and get_camera_by_identifier;
\* Http404 and MultipleObjectsReturned are neither ValueError nor
\* Camera.DoesNotExist and reach the handler of views.py:440
ResolveCamera ==
    /\ pc = "received"
    /\ IF ~AnyIdentifier(request)
       THEN /\ Return(ErrorResponse(400))
            /\ UNCHANGED <<lookups, camera>>
       ELSE LET r == GetCameraByIdentifier(request.camera_id, request.ip_port,
                                           request.cellular_identifier)
            IN  /\ lookups' = r.lookups
                /\ IF r.outcome = "ok"
                   THEN /\ camera' = r.camera
                        /\ pc' = "resolved"
                        /\ UNCHANGED response
                   ELSE /\ UNCHANGED camera
                        /\ Return(ErrorResponse(
                              CASE r.outcome = "ValueError" -> 400
                                [] r.outcome = "DoesNotExist" -> 404
                                [] OTHER -> 500))
    /\ UNCHANGED registry
    /\ UNCHANGED <<fire_model, person_model, request, fire_only, smoke_only,
                   person_detections, fire_smoke_detections, detections_created,
                   calls, save_log, detection_types, detections, notifications,
                   pushes>>

\* views.py:393-412  the active check, the image check and Image.open; a
\* camera of None makes camera.is_active raise (views.py:440)
CheckCameraAndImage ==
    /\ pc = "resolved"
    /\ IF camera = 0 THEN Return(ErrorResponse(500)) /\ UNCHANGED request
       ELSE IF ~CameraIsActive(camera)
       THEN Return(ErrorResponse(400)) /\ UNCHANGED request
       ELSE IF request.image = "missing"
       THEN Return(ErrorResponse(400)) /\ UNCHANGED request
       ELSE IF request.image = "corrupt"
       THEN Return(ErrorResponse(500)) /\ UNCHANGED request
       ELSE /\ pc' = "fire"
            /\ request' = ConsumedRequest
            /\ UNCHANGED response
    /\ UNCHANGED registry
    /\ UNCHANGED <<fire_model, person_model, lookups, camera, fire_only,
                   smoke_only, person_detections, fire_smoke_detections,
                   detections_created, calls, save_log, detection_types,
                   detections, notifications, pushes>>

\* the store and the log after one save_detection call with result r
Saved(group, fault, r) ==
    /\ detection_types' = r.detection_types
    /\ detections' = r.detections
    /\ notifications' = r.notifications
    /\ pushes' = r.pushes
    /\ save_log' = Append(save_log, [group |-> group, at |-> fault.at,
                                     raised |-> r.raised, id |-> r.id])

\* views.py:250-268  the FireShield call, process_detection_results and the
\* grouping by type; an exception of the model goes to views.py:287
RunFireModel ==
    /\ pc = "fire"
    /\ fire_model
    /\ calls' = Append(calls, "fire")
    /\ \/ \E raw \in BoxLists :
            LET fire_detections == ProcessDetectionResults(raw)
            IN  /\ fire_only' = SelectSeq(fire_detections, IsFireBox)
                /\ smoke_only' = SelectSeq(fire_detections, IsSmokeBox)
                /\ pc' = "save_fire"
       \/ /\ pc' = "after_fire"
          /\ UNCHANGED <<fire_only, smoke_only>>
    /\ UNCHANGED registry
    /\ UNCHANGED <<fire_model, person_model, request, lookups, camera,
                   person_detections, fire_smoke_detections, detections_created,
                   save_log, response, detection_types, detections,
                   notifications, pushes>>

\* views.py:270-275  an exception of save_detection goes to views.py:287
SaveFire ==
    /\ pc = "save_fire"
    /\ IF fire_only = <<>>
       THEN /\ pc' = "save_smoke"
            /\ UNCHANGED <<fire_smoke_detections, save_log, detection_types,
                           detections, notifications, pushes>>
       ELSE \E fault \in Faults(camera), rounding \in Roundings(fire_only) :
              LET r == SaveDetection(camera, "fire", fire_only, fault, rounding,
                                     detection_types, detections, notifications,
                                     pushes)
              IN  /\ Saved("fire", fault, r)
                  /\ IF r.raised
                     THEN pc' = "after_fire" /\ UNCHANGED fire_smoke_detections
                     ELSE /\ fire_smoke_detections' =
                                Append(fire_smoke_detections, r.id)
                          /\ pc' = "save_smoke"
    /\ UNCHANGED registry
    /\ UNCHANGED <<fire_model, person_model, request, lookups, camera, fire_only,
                   smoke_only, person_detections, detections_created, calls,
                   response>>

\* views.py:277-290
SaveSmoke ==
    /\ pc = "save_smoke"
    /\ pc' = "after_fire"
    /\ IF smoke_only = <<>>
       THEN UNCHANGED <<fire_smoke_detections, save_log, detection_types,
                        detections, notifications, pushes>>
       ELSE \E fault \in Faults(camera), rounding \in Roundings(smoke_only) :
              LET r == SaveDetection(camera, "smoke", smoke_only, fault, rounding,
                                     detection_types, detections, notifications,
                                     pushes)
              IN  /\ Saved("smoke", fault, r)
                  /\ IF r.raised
                     THEN UNCHANGED fire_smoke_detections
                     ELSE fire_smoke_detections' =
                              Append(fire_smoke_detections, r.id)
    /\ UNCHANGED registry
    /\ UNCHANGED <<fire_model, person_model, request, lookups, camera, fire_only,
                   smoke_only, person_detections, detections_created, calls,
                   response>>

\* views.py:291-308  no model: the dummy fire box is saved outside any try,
\* an exception of save_detection reaches views.py:440
SaveDummyFire ==
    /\ pc = "fire"
    /\ ~fire_model
    /\ \E fault \in Faults(camera), rounding \in Roundings(DummyFire) :
         LET r == SaveDetection(camera, "fire", DummyFire, fault, rounding,
                                detection_types, detections, notifications,
                                pushes)
         IN  /\ Saved("fire", fault, r)
             /\ IF r.raised
                THEN Return(ErrorResponse(500)) /\ UNCHANGED fire_smoke_detections
                ELSE /\ fire_smoke_detections' =
                           Append(fire_smoke_detections, r.id)
                     /\ pc' = "dummy_smoke"
                     /\ UNCHANGED response
    /\ UNCHANGED registry
    /\ UNCHANGED <<fire_model, person_model, request, lookups, camera, fire_only,
                   smoke_only, person_detections, detections_created, calls>>

\* views.py:310-316
SaveDummySmoke ==
    /\ pc = "dummy_smoke"
    /\ \E fault \in Faults(camera), rounding \in Roundings(DummySmoke) :
         LET r == SaveDetection(camera, "smoke", DummySmoke, fault, rounding,
                                detection_types, detections, notifications,
                                pushes)
         IN  /\ Saved("smoke", fault, r)
             /\ IF r.raised
                THEN Return(ErrorResponse(500)) /\ UNCHANGED fire_smoke_detections
                ELSE /\ fire_smoke_detections' =
                           Append(fire_smoke_detections, r.id)
                     /\ pc' = "after_fire"
                     /\ UNCHANGED response
    /\ UNCHANGED registry
    /\ UNCHANGED <<fire_model, person_model, request, lookups, camera, fire_only,
                   smoke_only, person_detections, detections_created, calls>>

\* a variant that runs the person step in every run
PersonStepNeededAlways(ids) == TRUE

\* views.py:419  len(fire_smoke_detections) == 0
PersonStepNeeded(ids) == Len(ids) = 0

\* views.py:415-424
DecidePerson ==
    /\ pc = "after_fire"
    /\ detections_created' = detections_created \o fire_smoke_detections
    /\ pc' = IF PersonStepNeeded(fire_smoke_detections) THEN "person" ELSE "respond"
    /\ UNCHANGED registry
    /\ UNCHANGED <<fire_model, person_model, request, lookups, camera, fire_only,
                   smoke_only, person_detections, fire_smoke_detections, calls,
                   save_log, response, detection_types, detections,
                   notifications, pushes>>

\* views.py:324-343  the YOLO call and the person filter; an exception of the
\* model goes to views.py:353
RunPersonModel ==
    /\ pc = "person"
    /\ person_model
    /\ calls' = Append(calls, "person")
    /\ \/ \E raw \in BoxLists :
            /\ person_detections' =
                   SelectSeq(ProcessDetectionResults(raw), IsPersonBox)
            /\ pc' = "save_person"
       \/ /\ pc' = "respond"
          /\ UNCHANGED person_detections
    /\ UNCHANGED registry
    /\ UNCHANGED <<fire_model, person_model, request, lookups, camera, fire_only,
                   smoke_only, fire_smoke_detections, detections_created,
                   save_log, response, detection_types, detections,
                   notifications, pushes>>

\* views.py:357-360
SkipPersonModel ==
    /\ pc = "person"
    /\ ~person_model
    /\ pc' = "respond"
    /\ UNCHANGED registry
    /\ UNCHANGED <<fire_model, person_model, request, lookups, camera, fire_only,
                   smoke_only, person_detections, fire_smoke_detections,
                   detections_created, calls, save_log, response,
                   detection_types, detections, notifications, pushes>>

\* views.py:345-356 and 421-422
SavePerson ==
    /\ pc = "save_person"
    /\ pc' = "respond"
    /\ IF person_detections = <<>>
       THEN UNCHANGED <<detections_created, save_log, detection_types,
                        detections, notifications, pushes>>
       ELSE \E fault \in Faults(camera), rounding \in Roundings(person_detections) :
              LET r == SaveDetection(camera, "person", person_detections, fault, rounding,
                                     detection_types, detections, notifications,
                                     pushes)
              IN  /\ Saved("person", fault, r)
                  /\ IF r.raised
                     THEN UNCHANGED detections_created
                     ELSE detections_created' = Append(detections_created, r.id)
    /\ UNCHANGED registry
    /\ UNCHANGED <<fire_model, person_model, request, lookups, camera, fire_only,
                   smoke_only, person_detections, fire_smoke_detections, calls,
                   response>>

\* views.py:426-438
Respond ==
    /\ pc = "respond"
    /\ Return(SuccessResponse(camera, detections_created, fire_smoke_detections))
    /\ UNCHANGED registry
    /\ UNCHANGED <<fire_model, person_model, request, lookups, camera, fire_only,
                   smoke_only, person_detections, fire_smoke_detections,
                   detections_created, calls, save_log, detection_types,
                   detections, notifications, pushes>>

Next ==
    \/ ReceiveRequest
    \/ ResolveCamera
    \/ CheckCameraAndImage
    \/ RunFireModel
    \/ SaveFire
    \/ SaveSmoke
    \/ SaveDummyFire
    \/ SaveDummySmoke
    \/ DecidePerson
    \/ RunPersonModel
    \/ SkipPersonModel
    \/ SavePerson
    \/ Respond

Spec == Init /\ [][Next]_vars

(***************************************************************************)
(* Project creation: create_project_wizard, one step per action.  The rows *)
(* the request writes stay in `wizard` until the transaction commits; an   *)
(* exception inside transaction.atomic() discards them.                    *)
(***************************************************************************)
\* the tables as the transaction of the request sees them
BoundariesInTransaction == farm_boundaries \o wizard.created_boundaries
CamerasInTransaction == cameras \o wizard.created_cameras

\* views.py:70-90  ProjectForm, Project(...), project.full_clean(), and the
\* entry of Project.save (models.py:40-44)
WizardValidate ==
    /\ wizard.pc = "submitted"
    /\ wizard' =
         IF NameTaken(wizard.name, wizard.user)
         THEN Finished("name_taken")
         ELSE [wizard EXCEPT !.pc = "slug", !.slug = Slugify(wizard.name),
                             !.counter = 1]
    /\ UNCHANGED <<projects, farm_boundaries, cameras, user_project_roles,
                   users, pending>>
    /\ UNCHANGED <<run, events, regenerated>>

\* models.py:45-51  one test of the while condition and, when the slug is
\* taken, one pass through the body of the loop
ProjectSlugStep ==
    /\ wizard.pc = "slug"
    /\ \E now \in Timestamps :
         wizard' =
           IF ~SlugExists(wizard.slug)
           THEN [wizard EXCEPT !.pc = "access_code"]
           ELSE IF SlugCounterExhausted(wizard.counter + 1)
           THEN [wizard EXCEPT !.pc = "access_code",
                               !.counter = wizard.counter + 1,
                               !.slug = Append(Slugify(wizard.name), now)]
           ELSE [wizard EXCEPT !.counter = wizard.counter + 1,
                               !.slug = Append(Slugify(wizard.name),
                                               ToString(wizard.counter))]
    /\ UNCHANGED <<projects, farm_boundaries, cameras, user_project_roles,
                   users, pending>>
    /\ UNCHANGED <<run, events, regenerated>>

\* models.py:58-70  one test of the while condition of generate_access_code
\* and one pass through its body, or the UUID fallback after the loop
AccessCodeStep ==
    /\ wizard.pc = "access_code"
    /\ \/ /\ MoreAttempts(wizard.attempts)
          /\ \E code \in RandomCodes :
               wizard' =
                 IF ~AccessCodeExists(code)
                 THEN [wizard EXCEPT !.pc = "insert", !.access_code = code,
                                     !.code_length = AccessCodeLength]
                 ELSE [wizard EXCEPT !.attempts = wizard.attempts + 1]
       \/ /\ ~MoreAttempts(wizard.attempts)
          /\ \E code \in UuidCodes :
               wizard' = [wizard EXCEPT !.pc = "insert", !.access_code = code,
                                        !.fallback = TRUE,
                                        !.code_length = UuidPrefixLength]
    /\ UNCHANGED <<projects, farm_boundaries, cameras, user_project_roles,
                   users, pending>>
    /\ UNCHANGED <<run, events, regenerated>>

\* models.py:56  super().save(): the INSERT, which the unique indexes of slug
\* and access_code may refuse
InsertProject ==
    /\ wizard.pc = "insert"
    /\ wizard' =
         IF SlugExists(wizard.slug) \/ AccessCodeExists(wizard.access_code)
         THEN Finished("integrity")
         ELSE [wizard EXCEPT !.pc = "boundaries", !.project = NextProjectId,
                             !.next = 1]
    /\ UNCHANGED <<projects, farm_boundaries, cameras, user_project_roles,
                   users, pending>>
    /\ UNCHANGED <<run, events, regenerated>>

\* views.py:96-146  one pass through the loop over farm_boundaries_data
WizardBoundaryStep ==
    /\ wizard.pc = "boundaries"
    /\ wizard' =
         IF wizard.next > Len(wizard.data.boundaries)
         THEN [wizard EXCEPT !.pc = "cameras", !.next = 1]
         ELSE LET item == wizard.data.boundaries[wizard.next]
                  row == [project |-> wizard.project,
                          boundary |-> IF item.kind = "polygon"
                                       THEN item.points ELSE {},
                          is_active |-> TRUE]
              IN  IF item.kind \in {"invalid", "point"}
                  THEN [wizard EXCEPT !.next = wizard.next + 1]
                  ELSE IF ~ValidateNoBoundaryOverlap(BoundariesInTransaction,
                                                     row.project, 0, row.boundary)
                  THEN Finished("overlap")
                  ELSE [wizard EXCEPT
                          !.next = wizard.next + 1,
                          !.created_boundaries = Append(@, row),
                          !.temp_ids = Append(@, item.temp_id)]
    /\ UNCHANGED <<projects, farm_boundaries, cameras, user_project_roles,
                   users, pending>>
    /\ UNCHANGED <<run, events, regenerated>>

\* views.py:154-166  the boundary of a camera entry: the one mapped to its
\* farm_boundary_temp_id, else the first one created, else none (0); the
\* result is the primary key the boundary has in the transaction
WizardBoundaryOf(temp_id) ==
    LET mapped == {k \in 1..Len(wizard.temp_ids) : wizard.temp_ids[k] = temp_id}
    IN  IF mapped # {}
        THEN Len(farm_boundaries) + (CHOOSE k \in mapped : \A j \in mapped : j <= k)
        ELSE IF wizard.created_boundaries # <<>>
        THEN Len(farm_boundaries) + 1
        ELSE 0

\* views.py:149-200  one pass through the loop over cameras_data; a camera
\* that fails full_clean is left out without a message
WizardCameraStep ==
    /\ wizard.pc = "cameras"
    /\ wizard' =
         IF wizard.next > Len(wizard.data.cameras)
         THEN [wizard EXCEPT !.pc = "commit"]
         ELSE LET item == wizard.data.cameras[wizard.next]
                  fb == WizardBoundaryOf(item.farm_boundary_temp_id)
                  cam == [project |-> wizard.project, farm_boundary |-> fb,
                          location |-> item.location,
                          camera_type |-> item.camera_type,
                          ip_address |-> item.ip_address, port |-> item.port,
                          cellular_identifier |-> item.cellular_identifier,
                          is_active |-> TRUE]
              IN  IF fb = 0
                  THEN [wizard EXCEPT !.next = wizard.next + 1]
                  ELSE IF ~CameraFullClean(cam, 0, BoundariesInTransaction,
                                           CamerasInTransaction)
                  THEN [wizard EXCEPT !.next = wizard.next + 1]
                  ELSE [wizard EXCEPT !.next = wizard.next + 1,
                                      !.created_cameras = Append(@, cam)]
    /\ UNCHANGED <<projects, farm_boundaries, cameras, user_project_roles,
                   users, pending>>
    /\ UNCHANGED <<run, events, regenerated>>

\* views.py:79 and 201-202  the transaction commits: the Project, its
\* boundaries and its cameras become visible; no UserProjectRole is written
WizardCommit ==
    /\ wizard.pc = "commit"
    /\ projects' = Append(projects,
                          [id |-> wizard.project, name |-> wizard.name,
                           slug |-> wizard.slug,
                           access_code |-> wizard.access_code,
                           is_active |-> TRUE, created_by |-> wizard.user])
    /\ farm_boundaries' = BoundariesInTransaction
    /\ cameras' = CamerasInTransaction
    /\ wizard' = [Finished("created") EXCEPT !.project = wizard.project]
    /\ UNCHANGED <<user_project_roles, users, pending>>
    /\ UNCHANGED <<run, events, regenerated>>

(***************************************************************************)
(* SpecProjectSave: one project creation request                           *)
(***************************************************************************)
\* the Project table after n projects named "Farm", "Farm 1", "Farm 2", ...
\* were created: row i > 2 has the slug farm-(i-1)
CrowdedProjects(n) ==
    [i \in 1..n |->
        IF i <= Len(Projects) THEN Projects[i]
        ELSE [id |-> "P" \o ToString(i),
              name |-> <<"Farm", ToString(i - 1)>>,
              slug |-> <<"farm", ToString(i - 1)>>,
              access_code |-> "L" \o ToString(i),
              is_active |-> TRUE, created_by |-> "dave"]]

\* the sizes of the Project table the request may meet: the two projects of
\* the store, one short of exhausting the slug loop, and enough to exhaust it
Crowds == {Len(Projects), SlugMaxCounter - 1, SlugMaxCounter}

\* project_name values: two that slugify to the same slug, one that equals a
\* slug the loop builds, and one that collides with nothing
ProjectNames == { <<"Farm">>, <<"FARM">>, <<"Farm", "1">>, <<"Barn">> }

InitProjectSave ==
    /\ fire_model = FALSE
    /\ person_model = FALSE
    /\ IdleRun
    /\ \E n \in Crowds : projects = CrowdedProjects(n)
    /\ farm_boundaries = FarmBoundaries
    /\ cameras = Cameras
    /\ user_project_roles = UserProjectRoles
    /\ users = Users
    /\ pending = <<>>
    /\ regenerated = NoRegeneration
    /\ \E user \in {"alice", "erin"}, name \in ProjectNames :
         wizard = Submitted(user, name, PlainSubmission)

NextProjectSave ==
    \/ WizardValidate
    \/ ProjectSlugStep
    \/ AccessCodeStep
    \/ InsertProject
    \/ WizardBoundaryStep
    \/ WizardCameraStep
    \/ WizardCommit

SpecProjectSave == InitProjectSave /\ [][NextProjectSave]_vars

(***************************************************************************)
(* SpecMembers: a project is created, clients join it with its access      *)
(* code, a camera of the deployment posts one image, and users toggle the  *)
(* false-positive mark of Detections                                       *)
(***************************************************************************)
\* the usernames and access codes a signup request may carry
SignupUsernames == {"frank", "gina", "bob"}
SignupCodes == {"e5f6", "0A1B", "a1b2", "ZZZZ"}

\* value.upper() of the codes used
UpperCase == ("e5f6" :> "E5F6") @@ ("a1b2" :> "A1B2")

\* serializers.py:52  value.strip().upper()
NormalizeCode(value) ==
    IF value \in DOMAIN UpperCase THEN UpperCase[value] ELSE value

\* Project.objects.get(access_code=code, is_active=True)
ActiveProjectsWithCode(code) ==
    {i \in 1..Len(projects) : projects[i].access_code = code /\ projects[i].is_active}

\* authentication/views.py:223-259 with the validation of
\* serializers.py:45-59: the user is created as a client and gets a client
\* role on the project of the code; a request that fails validation changes
\* nothing
ClientSignup ==
    /\ pc = "idle"
    /\ wizard.pc = "idle"
    /\ \E username \in SignupUsernames, value \in SignupCodes :
         LET access_code == NormalizeCode(value)
             matches == ActiveProjectsWithCode(access_code)
         IN  /\ username \notin DOMAIN users
             /\ matches # {}
             /\ users' = users @@ (username :> "client")
             /\ user_project_roles' =
                  << [user |-> username,
                      project |-> projects[CHOOSE i \in matches : TRUE].id,
                      role |-> "client", is_active |-> TRUE] >>
                  \o user_project_roles
    /\ UNCHANGED <<projects, farm_boundaries, cameras, wizard, pending>>
    /\ UNCHANGED <<run, events, regenerated>>

\* api_views.py:17-22  get_user_projects: the active projects the user
\* created or has a role on, active or not
GetUserProjects(user) ==
    {projects[i].id : i \in
        {j \in 1..Len(projects) :
            /\ projects[j].is_active
            /\ \/ projects[j].created_by = user
               \/ \E r \in 1..Len(user_project_roles) :
                    /\ user_project_roles[r].user = user
                    /\ user_project_roles[r].project = projects[j].id}}

\* the UPDATE of Detection id with the mark inverted; save() runs the
\* post_save handler with created = False
ToggleAndSave(id) ==
    LET row == [detections[id] EXCEPT
                   !.is_false_positive = ~@,
                   !.detected_at =
                       DetectedAtOnSave(@, FALSE, ClockAtSave(detections))]
        fan == CreateDetectionNotification(row, FALSE, [at |-> "none", k |-> 0],
                                           notifications, pushes)
    IN  /\ detections' = [detections EXCEPT ![id] = row]
        /\ notifications' = fan.notifications
        /\ pushes' = fan.pushes

\* api_views.py:311-343  toggle_false_positive; a Detection outside the
\* projects of the user is a 404 and changes nothing.  mark_false_positive
\* (views.py:504-532) does the same for the creator of the project only
ToggleFalsePositive ==
    /\ pc = "done"
    /\ \E user \in DOMAIN users, id \in 1..Len(detections) :
         /\ cameras[detections[id].camera].project \in GetUserProjects(user)
         /\ ToggleAndSave(id)
    /\ UNCHANGED registry
    /\ UNCHANGED <<run, detection_types>>

\* the supervisor erin submits the wizard for a project named "Farm"; the
\* deployment runs without model weights
InitMembers ==
    /\ fire_model = FALSE
    /\ person_model = FALSE
    /\ IdleRun
    /\ StoreInit
    /\ wizard = Submitted("erin", <<"Farm">>, PlainSubmission)

\* the image arrives once the project creation has ended
ReceiveRequestAfterCreation == wizard.pc = "idle" /\ ReceiveRequest

NextMembers ==
    \/ WizardValidate
    \/ ProjectSlugStep
    \/ AccessCodeStep
    \/ InsertProject
    \/ WizardBoundaryStep
    \/ WizardCameraStep
    \/ WizardCommit
    \/ ClientSignup
    \/ ReceiveRequestAfterCreation
    \/ ResolveCamera
    \/ CheckCameraAndImage
    \/ SaveDummyFire
    \/ SaveDummySmoke
    \/ DecidePerson
    \/ Respond
    \/ ToggleFalsePositive

SpecMembers == InitMembers /\ [][NextMembers]_vars

(***************************************************************************)
(* SpecRegistry: a project is created, then FarmBoundary and Camera rows   *)
(* of the new project are added and changed through their validated forms  *)
(* (full_clean, then save).  The creation of a boundary is split into its  *)
(* validation and its save, so two requests can overlap in time.           *)
(***************************************************************************)
\* the project the operations work on
RegistryProject == wizard.project

\* the FarmBoundary and Camera rows of that project
BoundariesOfProject ==
    {b \in 1..Len(farm_boundaries) : farm_boundaries[b].project = RegistryProject}
CamerasOfProject ==
    {c \in 1..Len(cameras) : cameras[c].project = RegistryProject}

\* the sequence without its k-th element
RemoveAt(seq, k) == SubSeq(seq, 1, k - 1) \o SubSeq(seq, k + 1, Len(seq))

\* models.py:161-172  full_clean of a new FarmBoundary: the request has
\* validated its polygon against the rows committed so far and has not
\* saved it yet.  A polygon that intersects an active sibling is rejected
\* here and the request ends without a save.
ValidateBoundary ==
    /\ wizard.outcome = "created"
    /\ Len(pending) < MaxPending
    /\ Len(farm_boundaries) + Len(pending) < MaxBoundaryRows
    /\ \E polygon \in Polygons :
         /\ ValidateNoBoundaryOverlap(farm_boundaries, RegistryProject, 0, polygon)
         /\ pending' = Append(pending, [project |-> RegistryProject,
                                        boundary |-> polygon,
                                        is_active |-> TRUE])
    /\ UNCHANGED <<projects, farm_boundaries, cameras, user_project_roles,
                   users, wizard>>
    /\ UNCHANGED <<run, events, regenerated>>

\* models.py:154-159  save of a validated FarmBoundary: the INSERT; nothing
\* is checked again and no lock or constraint stands in the way
SaveBoundary ==
    /\ \E k \in 1..Len(pending) :
         /\ farm_boundaries' = Append(farm_boundaries, pending[k])
         /\ pending' = RemoveAt(pending, k)
    /\ UNCHANGED <<projects, cameras, user_project_roles, users, wizard>>
    /\ UNCHANGED <<run, events, regenerated>>

\* models.py:154-172  an existing FarmBoundary gets a new geometry or a new
\* is_active through its form: clean() tests the overlap with the active
\* siblings, save() stores the row; its cameras are not looked at
ChangeBoundary ==
    /\ wizard.outcome = "created"
    /\ \E b \in BoundariesOfProject, polygon \in Polygons,
          is_active \in BOOLEAN :
         /\ ValidateNoBoundaryOverlap(farm_boundaries, RegistryProject, b, polygon)
         /\ farm_boundaries' =
              [farm_boundaries EXCEPT ![b].boundary = polygon,
                                      ![b].is_active = is_active]
    /\ UNCHANGED <<projects, cameras, user_project_roles, users, wizard,
                   pending>>
    /\ UNCHANGED <<run, events, regenerated>>

\* the cellular identifiers a camera form may carry
CameraIdentifiers == {"CELL-3", "CELL-7"}

\* models.py:322-351  a Camera is added to a boundary of the project through
\* its form: full_clean, then save
AddCamera ==
    /\ wizard.outcome = "created"
    /\ Len(cameras) < MaxCameraRows
    /\ \E fb \in BoundariesOfProject, location \in Locations,
          cid \in CameraIdentifiers :
         LET cam == [project |-> RegistryProject, farm_boundary |-> fb,
                     location |-> location, camera_type |-> "cellular",
                     ip_address |-> "", port |-> 0,
                     cellular_identifier |-> cid, is_active |-> TRUE]
         IN  /\ CameraFullClean(cam, 0, farm_boundaries, cameras)
             /\ cameras' = Append(cameras, cam)
    /\ UNCHANGED <<projects, farm_boundaries, user_project_roles, users,
                   wizard, pending>>
    /\ UNCHANGED <<run, events, regenerated>>

\* models.py:322-351  a Camera gets a new location or a new boundary through
\* its form: full_clean, then save
ChangeCamera ==
    /\ wizard.outcome = "created"
    /\ \E c \in CamerasOfProject, fb \in BoundariesOfProject,
          location \in Locations :
         LET cam == [cameras[c] EXCEPT !.farm_boundary = fb,
                                       !.location = location]
         IN  /\ CameraFullClean(cam, c, farm_boundaries, cameras)
             /\ cameras' = [cameras EXCEPT ![c] = cam]
    /\ UNCHANGED <<projects, farm_boundaries, user_project_roles, users,
                   wizard, pending>>
    /\ UNCHANGED <<run, events, regenerated>>

\* the supervisor erin submits the wizard with one of the request bodies
InitRegistry ==
    /\ fire_model = FALSE
    /\ person_model = FALSE
    /\ IdleRun
    /\ StoreInit
    /\ \E data \in WizardSubmissions :
         wizard = Submitted("erin", <<"Farm">>, data)

NextRegistry ==
    \/ WizardValidate
    \/ ProjectSlugStep
    \/ AccessCodeStep
    \/ InsertProject
    \/ WizardBoundaryStep
    \/ WizardCameraStep
    \/ WizardCommit
    \/ ValidateBoundary
    \/ SaveBoundary
    \/ ChangeBoundary
    \/ AddCamera
    \/ ChangeCamera

SpecRegistry == InitRegistry /\ [][NextRegistry]_vars

(***************************************************************************)
(* SpecProjectRace: a second supervisor creates projects while the wizard  *)
(* request of the first one is in flight                                   *)
(***************************************************************************)
\* models.py:45-47  the first of base-1 ... base-999 that is not in the
\* Project table, <<>> when all of them are (which takes a table of 999
\* slugs at least)
FirstFreeCounterSlug(base) ==
    LET taken == {projects[i].slug : i \in 1..Len(projects)}
    IN  IF /\ Cardinality(taken) >= SlugMaxCounter - 1
           /\ \A c \in 1..(SlugMaxCounter - 1) :
                 Append(base, ToString(c)) \in taken
        THEN <<>>
        ELSE Append(base,
                    ToString(CHOOSE c \in 1..(SlugMaxCounter - 1) :
                       /\ Append(base, ToString(c)) \notin taken
                       /\ \A d \in 1..(c - 1) :
                             Append(base, ToString(d)) \in taken))

\* models.py:42-51  the slug the loop of Project.save ends with when the
\* table does not change while it runs: the base slug, the first of base-1
\* ... base-999 that is free (first), or the base slug with the time of the
\* request
SlugOfSave(base, first, now) ==
    IF ~SlugExists(base) THEN base
    ELSE IF first # <<>> THEN first
    ELSE Append(base, now)

\* models.py:58-70  the codes generate_access_code may return: a random code
\* that is not in the table, or, after MaxAttempts draws that all were in
\* the table, the prefix of a UUID, which is not compared with the table
GenerateAccessCodeResults ==
    {code \in RandomCodes : MoreAttempts(0) /\ ~AccessCodeExists(code)}
    \cup (IF ~MoreAttempts(0) \/ \E code \in RandomCodes : AccessCodeExists(code)
          THEN UuidCodes ELSE {})

\* the wizard request holds a Project row it inserted and has not committed
WizardInTransaction == wizard.pc \in {"boundaries", "cameras", "commit"}

\* the unique indexes of slug and access_code make a writer of a value
\* wait for the transaction that inserted the same value
BlockedByWizard(slug, code) ==
    WizardInTransaction /\ (wizard.slug = slug \/ wizard.access_code = code)

\* the primary key of a Project row inserted while the row of the wizard
\* request may be uncommitted
OtherProjectId ==
    "P" \o ToString(Len(projects) + (IF WizardInTransaction THEN 2 ELSE 1))

\* the project_name of the second supervisor: the one of the wizard request
OtherNames == { <<"Farm">> }

\* views.py:49-202  a create_project_wizard request of dave without
\* boundaries and cameras, from its first query to its commit; a request
\* that fails validation or whose INSERT the unique indexes refuse stores
\* nothing
OtherCreation ==
    /\ \E name \in OtherNames :
         /\ ~NameTaken(name, "dave")
         /\ \E first \in {FirstFreeCounterSlug(Slugify(name))} :
              \E now \in Timestamps, code \in GenerateAccessCodeResults :
           LET slug == SlugOfSave(Slugify(name), first, now)
           IN  /\ ~SlugExists(slug)
               /\ ~AccessCodeExists(code)
               /\ ~BlockedByWizard(slug, code)
               /\ projects' = Append(projects,
                                     [id |-> OtherProjectId, name |-> name,
                                      slug |-> slug, access_code |-> code,
                                      is_active |-> TRUE, created_by |-> "dave"])
    /\ UNCHANGED <<farm_boundaries, cameras, user_project_roles, users, wizard,
                   pending>>
    /\ UNCHANGED <<run, events, regenerated>>

\* the sizes of the Project table the requests may meet, and the
\* project_name of the wizard request: one whose slug is taken and, with the
\* small table, one whose slug is free
RaceCrowds == {Len(Projects), SlugMaxCounter}
RaceNames == { <<"Farm">>, <<"Barn">> }

InitProjectRace ==
    /\ fire_model = FALSE
    /\ person_model = FALSE
    /\ IdleRun
    /\ \E n \in RaceCrowds :
         /\ projects = CrowdedProjects(n)
         /\ \E name \in RaceNames :
              /\ n # Len(Projects) => name = <<"Farm">>
              /\ wizard = Submitted("erin", name, PlainSubmission)
    /\ farm_boundaries = FarmBoundaries
    /\ cameras = Cameras
    /\ user_project_roles = UserProjectRoles
    /\ users = Users
    /\ pending = <<>>
    /\ regenerated = NoRegeneration

NextProjectRace ==
    \/ WizardValidate
    \/ ProjectSlugStep
    \/ AccessCodeStep
    \/ InsertProject
    \/ WizardBoundaryStep
    \/ WizardCameraStep
    \/ WizardCommit
    \/ OtherCreation

SpecProjectRace == InitProjectRace /\ [][NextProjectRace]_vars

(***************************************************************************)
(* SpecAccessCodes: a project is created while the owners of the projects  *)
(* regenerate the access codes                                             *)
(***************************************************************************)
\* views.py:593-604 with models.py:72-76  project_regenerate_code of the
\* creator of a project (another user gets a 404): the new code is written
\* with save(update_fields=['access_code']); the unique index refuses a
\* code another project has, the request ends in an error and nothing is
\* stored
RegenerateAccessCode ==
    /\ \E user \in DOMAIN users, i \in 1..Len(projects) :
         \E code \in GenerateAccessCodeResults :
           /\ projects[i].created_by = user
           /\ ~BlockedByWizard(<<>>, code)
           /\ \A j \in 1..Len(projects) :
                j # i => projects[j].access_code # code
           /\ projects' = [projects EXCEPT ![i].access_code = code]
           /\ regenerated' = [project |-> projects[i].id,
                              old |-> projects[i].access_code,
                              new |-> code]
    /\ UNCHANGED <<farm_boundaries, cameras, user_project_roles, users, wizard,
                   pending>>
    /\ UNCHANGED <<run, events>>

InitAccessCodes ==
    /\ fire_model = FALSE
    /\ person_model = FALSE
    /\ IdleRun
    /\ StoreInit
    /\ wizard = Submitted("erin", <<"Farm">>, PlainSubmission)

NextAccessCodes ==
    \/ WizardValidate
    \/ ProjectSlugStep
    \/ AccessCodeStep
    \/ InsertProject
    \/ WizardBoundaryStep
    \/ WizardCameraStep
    \/ WizardCommit
    \/ RegenerateAccessCode

SpecAccessCodes == InitAccessCodes /\ [][NextAccessCodes]_vars


(***************************************************************************)
(* Vocabulary of the properties                                            *)
(***************************************************************************)
Range(seq) == {seq[i] : i \in 1..Len(seq)}

\* the Detection and Notification rows this run inserted
RunRows == {detections[i] : i \in (Len(InitialDetections) + 1)..Len(detections)}
RunRowIds == {d.id : d \in RunRows}
RunNotifications ==
    {notifications[i] : i \in (Len(InitialNotifications) + 1)..Len(notifications)}

NothingCreated == RunRows = {} /\ RunNotifications = {}

\* the request of the run is still in the state (the run has not entered
\* inference)
RequestLive == request.image \in ImageValues

NumIdentifiers(req) ==
    (IF req.camera_id # "" THEN 1 ELSE 0)
    + (IF req.ip_port # <<>> THEN 1 ELSE 0)
    + (IF req.cellular_identifier # "" THEN 1 ELSE 0)

\* the identifier form that has priority among those the request carries
PriorityPath(req) ==
    IF req.camera_id # "" THEN "camera_id"
    ELSE IF req.ip_port # <<>> THEN "ip_port"
    ELSE "cellular_identifier"

\* the cameras of the store, active or not, that the priority identifier of
\* the request names
NamedCameras(req) ==
    IF req.camera_id # ""
    THEN {c \in DOMAIN cameras : req.camera_id \in DOMAIN IntOf
                                 /\ c = IntOf[req.camera_id]}
    ELSE IF req.ip_port # <<>>
    THEN {c \in DOMAIN cameras : /\ Len(req.ip_port) = 2
                                 /\ req.ip_port[2] \in DOMAIN IntOf
                                 /\ cameras[c].camera_type = "ip"
                                 /\ cameras[c].ip_address = req.ip_port[1]
                                 /\ cameras[c].port = IntOf[req.ip_port[2]]}
    ELSE {c \in DOMAIN cameras : /\ req.cellular_identifier # ""
                                 /\ cameras[c].camera_type = "cellular"
                                 /\ cameras[c].cellular_identifier =
                                        req.cellular_identifier}

\* the priority identifier is well formed
WellFormed(req) ==
    IF req.camera_id # "" THEN req.camera_id \in DOMAIN IntOf
    ELSE IF req.ip_port # <<>>
    THEN Len(req.ip_port) = 2 /\ req.ip_port[2] \in DOMAIN IntOf
    ELSE req.cellular_identifier # ""

\* the groups of the run that hold boxes to save
NonEmptyGroups ==
    IF ~fire_model /\ request = ConsumedRequest
    THEN {"fire", "smoke"}
    ELSE (IF fire_only # <<>> THEN {"fire"} ELSE {})
         \cup (IF smoke_only # <<>> THEN {"smoke"} ELSE {})
         \cup (IF person_detections # <<>> THEN {"person"} ELSE {})

AttemptedGroups == {save_log[i].group : i \in 1..Len(save_log)}
FailedSaves == {i \in 1..Len(save_log) : save_log[i].raised}
Abs(x) == IF x < 0 THEN -x ELSE x

(***************************************************************************)
(* C1                                                                      *)
(***************************************************************************)
\* C1: the fire/smoke model is evaluated before the person model, the person
\* model is evaluated only when the fire/smoke step produced no detection,
\* and in a run in which the fire/smoke model returned a fire or smoke box
\* the person model is never invoked.
C1_PersonOnlyWithoutFireSmoke ==
    /\ calls \in {<<>>, <<"fire">>, <<"fire", "person">>}
    /\ ("person" \in Range(calls) => fire_smoke_detections = <<>>)
    /\ (fire_only # <<>> \/ smoke_only # <<>> => "person" \notin Range(calls))

(***************************************************************************)
(* C2                                                                      *)
(***************************************************************************)
\* C2: a run whose camera is inactive creates no Detection and ends in an
\* error response, whether the camera was named by id, by ip:port or by
\* cellular identifier.
C2_InactiveCameraNoDetection ==
    /\ \A d \in RunRows : cameras[d.camera].is_active
    /\ (camera # 0 /\ ~cameras[camera].is_active
          => /\ pc \in {"resolved", "done"}
             /\ RunRows = {}
             /\ (pc = "done" => ~response.success /\ response.status >= 400))
    /\ (pc = "done" /\ RequestLive
        /\ (\E c \in NamedCameras(request) : ~cameras[c].is_active)
          => /\ RunRows = {}
             /\ ~response.success /\ response.status >= 400)

\* an inactive camera was resolved by its id and the run ended in an error
C2_Witness ==
    /\ pc = "done"
    /\ camera = 2
    /\ lookups = <<"camera_id">>
    /\ response.status = 400

(***************************************************************************)
(* C3                                                                      *)
(***************************************************************************)
\* C3: when saving one detection group fails, the other groups of the run
\* are still attempted, the failed group is not in detections_created, the
\* saved ones are, and the run returns a success response.
C3_SaveFailureIsolated ==
    pc = "done" /\ FailedSaves # {}
      => /\ response.success
         /\ NonEmptyGroups \subseteq AttemptedGroups
         /\ \A i \in 1..Len(save_log) :
              IF save_log[i].raised
              THEN save_log[i].id \notin Range(response.detections_created)
              ELSE save_log[i].id \in Range(response.detections_created)

(***************************************************************************)
(* C4                                                                      *)
(***************************************************************************)
\* C4: in a success response, detections_created holds exactly the ids of
\* the Detection rows the run inserted.
C4_CreatedListEqualsPersistedRows ==
    pc = "done" /\ response.success
      => Range(response.detections_created) = RunRowIds

(***************************************************************************)
(* C5                                                                      *)
(***************************************************************************)
\* C5: a run in which nothing but the notification fan-out failed returns a
\* success response that lists every Detection the run saved.
C5_FanoutFailureInvisible ==
    pc = "done" /\ save_log # <<>>
    /\ (\A i \in 1..Len(save_log) : save_log[i].at \in FanoutFaults \cup {"none"})
      => /\ response.success
         /\ \A i \in 1..Len(save_log) :
              save_log[i].id \in Range(response.detections_created)

(***************************************************************************)
(* C6                                                                      *)
(***************************************************************************)
\* C6: a well-formed identifier that names no camera gets a 404 response and
\* creates no Detection and no Notification.
C6_UnknownCameraIs404 ==
    pc = "done" /\ RequestLive /\ NumIdentifiers(request) > 0
    /\ WellFormed(request) /\ NamedCameras(request) = {}
      => response.status = 404 /\ NothingCreated

(***************************************************************************)
(* C7                                                                      *)
(***************************************************************************)
\* C7 as stated: a request with no identifier or with more than one fails
\* with a bad request and creates nothing; camera resolution is reached with
\* exactly one identifier only.
C7_ExactlyOneIdentifier ==
    /\ (pc = "done" /\ RequestLive /\ NumIdentifiers(request) # 1
          => response.status = 400 /\ RunRows = {})
    /\ (RequestLive /\ lookups # <<>> => NumIdentifiers(request) = 1)

\* C7 as amended: a request with no identifier fails with a bad request
\* before any lookup and creates nothing; a request with one or more
\* identifiers goes on to camera resolution.
C7_AtLeastOneIdentifier ==
    /\ (RequestLive /\ pc \in {"resolved", "done"} /\ NumIdentifiers(request) = 0
          => /\ pc = "done"
             /\ response.status = 400
             /\ lookups = <<>>
             /\ RunRows = {})
    /\ (RequestLive /\ pc \in {"resolved", "done"} /\ NumIdentifiers(request) > 0
          => lookups # <<>>)
    /\ (RunRows # {} => lookups # <<>>)

\* a request with more than one identifier resolved a camera
C7_Witness ==
    /\ pc = "resolved"
    /\ RequestLive
    /\ NumIdentifiers(request) > 1
    /\ camera # 0

(***************************************************************************)
(* C8                                                                      *)
(***************************************************************************)
\* C8: one lookup path per request, the one of the highest-priority
\* identifier present; a lookup that fails resolves no camera, and a resolved
\* camera is the one the priority identifier names.
C8_OneLookupPathByPriority ==
    /\ Len(lookups) <= 1
    /\ (RequestLive /\ pc \in {"resolved", "done"} /\ NumIdentifiers(request) > 0
          => /\ lookups = <<PriorityPath(request)>>
             /\ (camera # 0 => camera \in NamedCameras(request))
             /\ (NamedCameras(request) = {} => camera = 0))

\* the lookup by camera_id failed although the ip_port of the same request
\* names an active camera, and no other path was tried
C8_Witness ==
    /\ pc = "done"
    /\ request.camera_id = "9"
    /\ request.ip_port = <<"10.0.0.5", "8080">>
    /\ lookups = <<"camera_id">>
    /\ camera = 0

(***************************************************************************)
(* C9                                                                      *)
(***************************************************************************)
\* C9 as stated: at most one Detection per type in a run; a fire Detection
\* holds boxes of class 0 only, a smoke Detection of class 1 only, a person
\* Detection of class 0 only.
C9_OwnClassBoxesOnly ==
    /\ \A d, e \in RunRows : d.detection_type = e.detection_type => d = e
    /\ \A d \in RunRows : \A i \in 1..Len(d.bounding_boxes) :
         d.bounding_boxes[i].class =
            (IF d.detection_type = "smoke" THEN 1 ELSE 0)

\* C9 as amended: at most one Detection per type in a run; a smoke Detection
\* holds boxes of class 1 only, a person Detection of class 0 only, and a
\* fire Detection holds the boxes of the fire/smoke model of every class but
\* 1 (class 0 and the classes outside the mapping).
C9_BoxesByMappedType ==
    /\ \A d, e \in RunRows : d.detection_type = e.detection_type => d = e
    /\ \A d \in RunRows :
         /\ d.detection_type \in {"fire", "smoke", "person"}
         /\ \A i \in 1..Len(d.bounding_boxes) :
              CASE d.detection_type = "smoke" -> d.bounding_boxes[i].class = 1
                [] d.detection_type = "person" -> d.bounding_boxes[i].class = 0
                [] OTHER -> d.bounding_boxes[i].class # 1

\* a run saved a fire and a smoke Detection, the fire one with a box of a
\* class outside the mapping
C9_Witness ==
    /\ pc = "done"
    /\ \E d, e \in RunRows :
         /\ d.detection_type = "fire"
         /\ e.detection_type = "smoke"
         /\ \E i \in 1..Len(d.bounding_boxes) : d.bounding_boxes[i].class = 2

(***************************************************************************)
(* C10                                                                     *)
(***************************************************************************)
\* C10 as stated: the confidence_score of a Detection of the run is the
\* arithmetic mean of the confidences of its own boxes, and it has boxes.
C10_ScoreIsExactMean ==
    \A d \in RunRows :
        /\ d.bounding_boxes # <<>>
        /\ 10 * d.confidence_score * Len(d.bounding_boxes)
              = SumConfidence(d.bounding_boxes)

\* C10 as amended: the confidence_score of a Detection of the run is the
\* arithmetic mean of the confidences of its own boxes up to the rounding to
\* the 4 decimal places of the field (it differs from the mean by less than
\* 0.0001), and it has boxes.
C10_ScoreIsRoundedMean ==
    \A d \in RunRows :
        /\ d.bounding_boxes # <<>>
        /\ Abs(10 * d.confidence_score * Len(d.bounding_boxes)
               - SumConfidence(d.bounding_boxes))
              < 10 * Len(d.bounding_boxes)

\* a run saved two Detections whose boxes differ in confidence, one of them
\* with a mean that has more than 4 decimal places
C10_Witness ==
    /\ pc = "done"
    /\ \E d, e \in RunRows :
         /\ d.detection_type # e.detection_type
         /\ d.bounding_boxes[1].confidence # e.bounding_boxes[1].confidence
         /\ 10 * d.confidence_score * Len(d.bounding_boxes)
               # SumConfidence(d.bounding_boxes)

(***************************************************************************)
(* C11                                                                     *)
(***************************************************************************)
\* a row that the result of a loaded model could have produced: it has
\* boxes, every box is above the threshold and of a class that maps to the
\* type of the row; nothing else in a Detection row records its origin
CouldBeReal(d) ==
    /\ d.bounding_boxes # <<>>
    /\ \A i \in 1..Len(d.bounding_boxes) :
         /\ d.bounding_boxes[i].confidence > ConfThreshold
         /\ d.bounding_boxes[i].confidence <= 100000
         /\ GetDetectionTypeFromClass(d.bounding_boxes[i].class, "fire")
               = d.detection_type

\* C11: when a model is not loaded its inference step does not raise (the
\* run that reached inference ends in a success response), and its result
\* is empty or tagged as synthetic: no Detection that could be taken for a
\* real one is persisted from it.
C11_UnavailableModelEmptyOrTagged ==
    /\ (~fire_model /\ pc = "done" /\ request = ConsumedRequest
          => response.success)
    /\ (~fire_model => \A d \in RunRows : ~CouldBeReal(d))
    /\ (~person_model => \A d \in RunRows : d.detection_type # "person")

NotificationsOf(id) ==
    {n \in Range(notifications) : n.detection = id}

\* C13: for every Detection the run persisted with is_false_positive =
\* false, the users holding a Notification that references it are exactly
\* the users with an active role on the project of its camera, and each of
\* them holds one.
C13_NotifiedUsersAreTheAudience ==
    \A d \in RunRows :
        ~d.is_false_positive
          => LET audience == Range(UsersToNotify(cameras[d.camera].project))
             IN  /\ {n.user : n \in NotificationsOf(d.id)} = audience
                 /\ \A u \in audience :
                      Cardinality({n \in NotificationsOf(d.id) : n.user = u}) = 1

(***************************************************************************)
(* C16                                                                     *)
(***************************************************************************)
\* the delivery attempts made for Notification id on channel ch
AttemptsOf(id, ch) ==
    {j \in 1..Len(pushes) : pushes[j].notification = id /\ pushes[j].channel = ch}

\* C16: when a push fails, the Notification row it was made for is still
\* stored, the other channel was attempted for the same row all the same,
\* and every user of the audience of that Detection has a Notification row
\* with one attempt on each channel.
C16_ChannelsIndependent ==
    \A i \in 1..Len(pushes) :
        ~pushes[i].ok
          => LET p == pushes[i]
             IN  /\ p.notification \in 1..Len(notifications)
                 /\ notifications[p.notification].user = p.user
                 /\ Cardinality(AttemptsOf(p.notification, "ws")) = 1
                 /\ Cardinality(AttemptsOf(p.notification, "fcm")) = 1
                 /\ LET d == detections[notifications[p.notification].detection]
                    IN  \A u \in Range(UsersToNotify(cameras[d.camera].project)) :
                          \E n \in NotificationsOf(d.id) :
                              /\ n.user = u
                              /\ Cardinality(AttemptsOf(n.id, "ws")) = 1
                              /\ Cardinality(AttemptsOf(n.id, "fcm")) = 1

\* the WebSocket push failed for the first user of an audience of two, the
\* FCM push for the same user was made, and the second user was served
C16_Witness ==
    \E i \in 1..Len(pushes) :
        /\ ~pushes[i].ok
        /\ pushes[i].channel = "ws"
        /\ i + 3 <= Len(pushes)
        /\ pushes[i + 1].channel = "fcm"
        /\ pushes[i + 1].notification = pushes[i].notification
        /\ pushes[i + 2].user # pushes[i].user
        /\ pushes[i + 3].ok

(***************************************************************************)
(* C20                                                                     *)
(***************************************************************************)
\* the position of a step in the handling of a creation request
WizardRank ==
    ("submitted" :> 1) @@ ("slug" :> 2) @@ ("access_code" :> 3) @@
    ("insert" :> 4) @@ ("boundaries" :> 5) @@ ("cameras" :> 6) @@
    ("commit" :> 7) @@ ("idle" :> 8)

\* the number of passes made through the body of the slug loop
SlugIterations(w) == IF w.counter = 0 THEN 0 ELSE w.counter - 1

\* the slug ends in a time-derived part
TimeSuffixed(slug) == slug # <<>> /\ slug[Len(slug)] \in Timestamps

\* every step of a creation request moves to a later stage, or stays in a
\* loop and counts one pass more; the passes stay within their limits, and
\* the fallbacks are what is left when a limit is reached
WizardStepBounded ==
    wizard.pc # "idle" =>
      /\ \/ WizardRank[wizard'.pc] > WizardRank[wizard.pc]
         \/ /\ wizard.pc = "slug" /\ wizard'.pc = "slug"
            /\ wizard'.counter = wizard.counter + 1
         \/ /\ wizard.pc = "access_code" /\ wizard'.pc = "access_code"
            /\ wizard'.attempts = wizard.attempts + 1
         \/ /\ wizard.pc = "boundaries" /\ wizard'.pc = "boundaries"
            /\ wizard.next <= Len(wizard.data.boundaries)
            /\ wizard'.next = wizard.next + 1
         \/ /\ wizard.pc = "cameras" /\ wizard'.pc = "cameras"
            /\ wizard.next <= Len(wizard.data.cameras)
            /\ wizard'.next = wizard.next + 1
      /\ SlugIterations(wizard') <= 1000
      /\ (wizard'.pc = "slug" => SlugIterations(wizard') < 1000)
      /\ (wizard'.pc \notin {"idle", "slug"}
            => (TimeSuffixed(wizard'.slug) <=> SlugIterations(wizard') = 1000))
      /\ wizard'.attempts <= 100
      /\ (wizard'.pc # "idle"
            => /\ wizard'.fallback
                   <=> wizard'.attempts = 100 /\ wizard'.access_code # ""
               /\ wizard'.access_code # "" => wizard'.code_length = 12)

\* C20: project creation terminates: every step of the request makes
\* progress, the slug loop makes at most 1000 passes and then takes a
\* time-derived suffix, the access code is drawn at most 100 times and then
\* taken from a UUID, cut to 12 characters, whatever rows exist.
C20_ProjectCreationTerminates == [][WizardStepBounded]_vars

\* a project is about to be committed after both the slug loop and the code
\* loop had run to their limits
C20_Witness ==
    /\ wizard.pc = "commit"
    /\ wizard.counter = SlugMaxCounter + 1
    /\ wizard.attempts = MaxAttempts
    /\ wizard.fallback
    /\ TimeSuffixed(wizard.slug)
    /\ wizard.access_code \in UuidCodes

(***************************************************************************)
(* C14                                                                     *)
(***************************************************************************)
\* the users with a role of the given kind on the project
RoleHolders(project, role) ==
    {user_project_roles[r].user : r \in
        {j \in 1..Len(user_project_roles) :
            /\ user_project_roles[j].project = project
            /\ user_project_roles[j].role = role
            /\ user_project_roles[j].is_active}}

\* the project the wizard created, its creator and the clients who joined
\* it by signup
WizardProject == projects[Len(projects)]
JoinedClients == RoleHolders(WizardProject.id, "client")

\* the Detections of the run on a camera of the wizard's project, saved
\* without a failure anywhere in the save
CleanWizardRows ==
    {d \in RunRows :
        /\ cameras[d.camera].project = WizardProject.id
        /\ \A i \in 1..Len(save_log) :
             save_log[i].id = d.id => ~save_log[i].raised}

\* C14: once the supervisor has created a project through the wizard and
\* two clients have joined it by access-code signup, a Detection created on
\* a camera of that project has exactly 3 Notification rows: one for the
\* supervisor and one for each client.
C14_SupervisorAndTwoClientsNotified ==
    wizard.outcome = "created" /\ Cardinality(JoinedClients) = 2
      => \A d \in CleanWizardRows :
            /\ Cardinality(NotificationsOf(d.id)) = 3
            /\ {n.user : n \in NotificationsOf(d.id)}
                  = JoinedClients \cup {WizardProject.created_by}

(***************************************************************************)
(* C15                                                                     *)
(***************************************************************************)
\* C15: whatever saves a Detection has gone through (its creation, then
\* any number of false-positive toggles), no user holds more than one
\* Notification row for it.
C15_OneNotificationPerDetectionAndUser ==
    \A d \in 1..Len(detections), u \in DOMAIN users :
        Cardinality({n \in NotificationsOf(d) : n.user = u}) <= 1

\* a Detection of the run that was notified to two users at its creation
\* has been saved again by a toggle (only a toggle sets the mark) and still
\* has its two Notification rows
C15_Witness ==
    \E d \in RunRows :
        /\ d.is_false_positive
        /\ Cardinality(NotificationsOf(d.id)) = 2

(***************************************************************************)
(* C17                                                                     *)
(***************************************************************************)
\* the pairs of distinct active FarmBoundary rows of one project whose
\* geometries intersect
ActiveOverlaps ==
    {<<a, b>> \in (1..Len(farm_boundaries)) \X (1..Len(farm_boundaries)) :
        /\ a < b
        /\ farm_boundaries[a].project = farm_boundaries[b].project
        /\ farm_boundaries[a].is_active /\ farm_boundaries[b].is_active
        /\ Intersects(farm_boundaries[a].boundary, farm_boundaries[b].boundary)}

\* C17: after any sequence of boundary operations (creation through the
\* wizard or a form, change of geometry, activation and deactivation) no
\* two active FarmBoundary rows of one project intersect.
C17_NoActiveOverlap == ActiveOverlaps = {}

(***************************************************************************)
(* C18                                                                     *)
(***************************************************************************)
\* a step that saves a validated boundary saves one that does not
\* intersect an active sibling in the table it is inserted into
SaveIsSerialized ==
    \A k \in 1..Len(pending) :
        /\ farm_boundaries' = Append(farm_boundaries, pending[k])
        /\ pending' = RemoveAt(pending, k)
        => ValidateNoBoundaryOverlap(farm_boundaries, pending[k].project, 0,
                                     pending[k].boundary)

\* C18: boundary creation is serialized per project: of two creations that
\* run at the same time with polygons that intersect each other and no
\* earlier boundary, at most one commits; every boundary that is saved is
\* free of overlap with the rows committed before it.
C18_BoundaryCreationSerialized == [][SaveIsSerialized]_vars

(***************************************************************************)
(* C19                                                                     *)
(***************************************************************************)
\* the cameras with a location whose boundary has a geometry that does not
\* contain it
CamerasOutside ==
    {c \in 1..Len(cameras) :
        /\ cameras[c].location # 0
        /\ farm_boundaries[cameras[c].farm_boundary].boundary # {}
        /\ ~Contains(farm_boundaries[cameras[c].farm_boundary].boundary,
                     cameras[c].location)}

\* C19: after any sequence of camera and boundary operations every Camera
\* with a location lies inside the polygon of its FarmBoundary, also after
\* the geometry of that boundary was changed.
C19_CamerasInsideBoundary == CamerasOutside = {}

(***************************************************************************)
(* C25                                                                     *)
(***************************************************************************)
\* the step that stores a Detection makes no delivery attempt itself
SaveDoesNotDeliver == detections' # detections => pushes' = pushes

\* C25: notification delivery is fire-and-forget relative to ingestion: the
\* run does not wait for the WebSocket and FCM attempts of the Detections
\* it stores, so storing a Detection returns before any of its attempts is
\* made.
C25_DeliveryIsFireAndForget == [][SaveDoesNotDeliver]_vars

(***************************************************************************)
(* C27                                                                     *)
(***************************************************************************)
\* the Detections of the run of the given type
RunRowsOfType(type) == {d \in RunRows : d.detection_type = type}

\* C27: while the fire/smoke model is not loaded, every run for an active
\* camera with a valid image stores one fire and one smoke Detection made
\* from the dummy boxes, and the person model is not called in it.
C27_NoFireModelAlwaysDummyPair ==
    ~fire_model /\ pc = "done" /\ request = ConsumedRequest
      => /\ Cardinality(RunRowsOfType("fire")) = 1
         /\ Cardinality(RunRowsOfType("smoke")) = 1
         /\ \A d \in RunRowsOfType("fire") : d.bounding_boxes = DummyFire
         /\ \A d \in RunRowsOfType("smoke") : d.bounding_boxes = DummySmoke
         /\ "person" \notin Range(calls)

(***************************************************************************)
(* C28                                                                     *)
(***************************************************************************)
\* the ids a response lists whose Detection has one of the given types
ListedOfType(resp, types) ==
    {id \in Range(resp.detections_created) :
        id \in 1..Len(detections) /\ detections[id].detection_type \in types}

\* C28: in every success response person_detection_skipped equals
\* fire_smoke_detected, fire_smoke_detected is true exactly when
\* detections_created lists a fire or smoke Detection, no response lists
\* both a person Detection and a fire or smoke Detection, and
\* detections_created has at most 2 ids.
C28_ResponseFlagsConsistent ==
    pc = "done" /\ response.success
      => /\ response.person_detection_skipped = response.fire_smoke_detected
         /\ response.fire_smoke_detected
              <=> ListedOfType(response, {"fire", "smoke"}) # {}
         /\ ~ /\ ListedOfType(response, {"person"}) # {}
              /\ ListedOfType(response, {"fire", "smoke"}) # {}
         /\ Len(response.detections_created) <= 2

\* a success response that lists a fire and a smoke Detection of a run in
\* which only the fire/smoke model was called
C28_Witness ==
    /\ pc = "done"
    /\ response.success
    /\ response.fire_smoke_detected
    /\ Len(response.detections_created) = 2
    /\ calls = <<"fire">>

(***************************************************************************)
(* C29                                                                     *)
(***************************************************************************)
\* the run has written nothing and called no model
StoreUntouched ==
    /\ detections = InitialDetections
    /\ detection_types = InitialDetectionTypes
    /\ notifications = InitialNotifications
    /\ pushes = <<>>
    /\ save_log = <<>>
    /\ calls = <<>>

\* C29: a run that ends before inference (no identifier, malformed
\* ip_port, camera not found, inactive camera, missing image) ends in an
\* error response and leaves the store as it was: no Detection,
\* DetectionType or Notification row is created and no model is called.
C29_EarlyExitLeavesStore ==
    /\ (pc = "done" /\ RequestLive => ~response.success /\ StoreUntouched)
    /\ (camera # 0 /\ ~cameras[camera].is_active => StoreUntouched)

\* a run for an active camera ended on the missing image
C29_Witness ==
    /\ pc = "done"
    /\ camera = 1
    /\ request.image = "missing"
    /\ response.status = 400
    /\ StoreUntouched

(***************************************************************************)
(* C30                                                                     *)
(***************************************************************************)
\* C30: when the creation of the Notification row fails for one user of
\* the audience of a Detection, the users that follow still get their rows:
\* at most the one row that failed is missing.
C30_NotificationFailureIsolated ==
    \A i \in 1..Len(save_log) :
        save_log[i].at = "notify" /\ save_log[i].id # 0
          => LET d == detections[save_log[i].id]
             IN  Cardinality(NotificationsOf(d.id))
                   >= Len(UsersToNotify(cameras[d.camera].project)) - 1

(***************************************************************************)
(* C23                                                                     *)
(***************************************************************************)
\* a step that changes a stored Detection inverts its mark and changes
\* nothing else of it, and no other Detection is changed, added or removed
ChangeIsToggleOnly ==
    \A id \in 1..Len(detections) :
        Len(detections') >= id /\ detections'[id] # detections[id]
          => detections' = [detections EXCEPT ![id].is_false_positive = ~@]

\* C23: toggling is_false_positive of a Detection changes only that flag:
\* confidence_score, bounding_boxes, detected_at, camera and detection_type
\* of it are unchanged and no other Detection is changed; a second toggle
\* restores the flag.
C23_ToggleChangesOnlyFlag == [][ChangeIsToggleOnly]_vars

\* a Detection of the run is marked as false positive and still has the
\* fields it was inserted with
C23_Witness ==
    \E d \in RunRows :
        /\ d.is_false_positive
        /\ d.detected_at = d.id
        /\ d.detection_type = "fire"
        /\ d.bounding_boxes = DummyFire

(***************************************************************************)
(* C26                                                                     *)
(***************************************************************************)
\* the user created the project or has an active role on it
HasActiveLink(user, project) ==
    \/ \E i \in 1..Len(projects) :
          projects[i].id = project /\ projects[i].created_by = user
    \/ \E r \in 1..Len(user_project_roles) :
          /\ user_project_roles[r].user = user
          /\ user_project_roles[r].project = project
          /\ user_project_roles[r].is_active

\* C26: only an active role or the ownership of the project gives access
\* to the Detections of a project: the projects get_user_projects returns
\* for a user, whose Detections the user may read and toggle, are projects
\* the user created or has an active role on, and the users notified of a
\* Detection have an active role on its project.
C26_OnlyActiveRolesGiveAccess ==
    /\ \A user \in DOMAIN users : \A id \in 1..Len(detections) :
          cameras[detections[id].camera].project \in GetUserProjects(user)
            => HasActiveLink(user, cameras[detections[id].camera].project)
    /\ \A n \in RunNotifications :
          HasActiveLink(n.user, cameras[detections[n.detection].camera].project)

(***************************************************************************)
(* C24                                                                     *)
(***************************************************************************)
\* every boundary entry of the request was created with the geometry it
\* carries
BoundariesAsSubmitted ==
    /\ Len(wizard.created_boundaries) = Len(wizard.data.boundaries)
    /\ \A k \in 1..Len(wizard.data.boundaries) :
          /\ wizard.data.boundaries[k].kind = "polygon"
          /\ k <= Len(wizard.created_boundaries)
               => wizard.created_boundaries[k].boundary =
                      wizard.data.boundaries[k].points

\* every camera entry of the request was created on the boundary its
\* farm_boundary_temp_id names
CamerasAsSubmitted ==
    /\ Len(wizard.created_cameras) = Len(wizard.data.cameras)
    /\ \A k \in 1..Len(wizard.data.cameras) :
          /\ wizard.data.cameras[k].farm_boundary_temp_id
                 \in Range(wizard.temp_ids)
          /\ k <= Len(wizard.created_cameras)
               => wizard.created_cameras[k].farm_boundary =
                      WizardBoundaryOf(
                          wizard.data.cameras[k].farm_boundary_temp_id)

\* C24: project creation never silently repairs or drops invalid input: a
\* creation that reaches its commit stores every boundary of the request
\* with its geometry and every camera of the request on the boundary it
\* references; a request with a malformed or unsupported geometry, a camera
\* that fails validation or a camera that references an unknown boundary
\* does not reach the commit.
C24_CreationStoresInputOrFails ==
    wizard.pc = "commit" => BoundariesAsSubmitted /\ CamerasAsSubmitted

(***************************************************************************)
(* C21                                                                     *)
(***************************************************************************)
\* no two rows of the Project table have the same slug
UniqueSlugs ==
    Cardinality({projects[i].slug : i \in 1..Len(projects)}) = Len(projects)

\* the step stores a new Project
ProjectAdded == Len(projects') = Len(projects) + 1

\* the first of base-1, base-2, ... that is not in the Project table
FirstFreeOfAll(base) ==
    LET taken == {projects[i].slug : i \in 1..Len(projects)}
    IN  Append(base,
               ToString(CHOOSE c \in 1..(Len(projects) + 1) :
                  /\ Append(base, ToString(c)) \notin taken
                  /\ \A d \in 1..(c - 1) : Append(base, ToString(d)) \in taken))

\* the slug of the Project a step stores is the base slug when no project
\* has it and else the first free one of base-1, base-2, ... without limit
StoredSlugIsFirstFreeOfAll ==
    ProjectAdded
      => LET row == projects'[Len(projects')]
             base == Slugify(row.name)
         IN  row.slug = IF base \in {projects[i].slug : i \in 1..Len(projects)}
                        THEN FirstFreeOfAll(base) ELSE base

\* the slug of the Project a step stores is the base slug when no project
\* has it, else the first free one of base-1 ... base-999, else the base slug
\* with the time of the request
StoredSlugIsResolved ==
    ProjectAdded
      => LET row == projects'[Len(projects')]
             base == Slugify(row.name)
         IN  \E first \in {FirstFreeCounterSlug(base)} :
               \E now \in Timestamps : row.slug = SlugOfSave(base, first, now)

\* C21 as stated: a new project gets the base slug if no project has it,
\* otherwise the first free slug of base-1, base-2, ..., regardless of
\* owner, and no two projects share a slug.
C21_FirstFreeSlugOfAll ==
    [][StoredSlugIsFirstFreeOfAll /\ (projects' # projects => UniqueSlugs')]_vars

\* C21: slug collision resolution works on global slug uniqueness: a new
\* project gets the base slug if no project has it, otherwise the first
\* free slug of base-1 ... base-999 and, when all of these are taken, the
\* base slug with the time of the request, regardless of owner; after any
\* sequence of creations, two interleaved creations of the same name
\* included, no two projects share a slug (the tables start with distinct
\* slugs and every step that changes them keeps the slugs distinct).
C21_SlugResolvedGlobally ==
    [][StoredSlugIsResolved /\ (projects' # projects => UniqueSlugs')]_vars

\* the two supervisors created a project of the same name while the other
\* request was in flight, and both were stored
C21_Witness ==
    /\ Len(projects) = Len(Projects) + 2
    /\ projects[Len(projects) - 1].name = <<"Farm">>
    /\ projects[Len(projects)].name = <<"Farm">>
    /\ projects[Len(projects) - 1].created_by = "dave"
    /\ projects[Len(projects)].created_by = "erin"
    /\ projects[Len(projects) - 1].slug = <<"farm", "2">>
    /\ projects[Len(projects)].slug = <<"farm", "3">>

(***************************************************************************)
(* C22                                                                     *)
(***************************************************************************)
\* no two rows of the Project table have the same access code
UniqueAccessCodes ==
    \A i, j \in 1..Len(projects) :
        projects[i].access_code = projects[j].access_code => i = j

\* a regeneration that returned left the project with the new code, which
\* is not the old one, and the old code matches no project any more
RegenerationReplacedCode ==
    regenerated' # regenerated
      => /\ regenerated'.new # regenerated'.old
         /\ \E i \in 1..Len(projects') :
               /\ projects'[i].id = regenerated'.project
               /\ projects'[i].access_code = regenerated'.new
         /\ \A i \in 1..Len(projects') :
               projects'[i].access_code # regenerated'.old

\* C22: after regenerate_access_code returns, the new code is stored and
\* differs from the old one, the old code matches no project in access
\* code validation or client signup, and after any sequence of creations
\* and regenerations no two projects hold the same access code.
C22_RegeneratedCodeIsNew ==
    [][RegenerationReplacedCode /\ UniqueAccessCodes']_vars

====
